---- MODULE Spec2Model ----
(***************************************************************************)
(* Model of open-context's acquisition / caching engine:                   *)
(*   - cache.Manager (TTL staleness, Load/Save/Remove/Clear)               *)
(*   - the markdown+frontmatter codec the fetchers persist records with    *)
(*   - PythonFetcher.FetchPackageInfo and GoFetcher.FetchLibraryInfo       *)
(*   - GoFetcher.getLatestVersion (major-version suffix probing)           *)
(* Strings are sequences of tokens; the tokens that the code treats        *)
(* specially (delimiter, quote, backslash, newline, '/', '_', ':') are     *)
(* tokens of their own, so concatenation, ReplaceAll, SplitN and TrimSpace *)
(* act on them as the Go functions act on the bytes.                       *)
(***************************************************************************)
EXTENDS Naturals, Integers, Sequences, FiniteSets, TLC

VARIABLES
    ttl,        \* Manager.ttl, fixed at construction
    now,        \* wall clock, in abstract ticks
    files,      \* the file system under cacheDir: path -> [data, mtime]
    last,       \* observation of the most recent operation (its inputs and results)
    probes,     \* the proxy's answers to the ten @latest probes of one resolution
    resolution, \* what getLatestVersion returned for `probes`
    calls,      \* the FetchPackageInfo calls in flight on the HTTP server's goroutines
    server      \* the stdio serving loop: its input lines and what it wrote

vars == <<ttl, now, files, last, probes, resolution, calls, server>>

----------------------------------------------------------------------------
(* Bounds of the model *)

\* the one positive TTL the cache is configured with (besides 0)
TTLPos == 2

\* the clock runs far enough to pass the TTL boundary by more than one tick
MaxTime == TTLPos + 1

TTLs == {0, TTLPos}

----------------------------------------------------------------------------
(* Strings as token sequences *)

NL == "\n"
SP == " "
Quote == "\""
BS == "\\"
Delim == "---"
Empty == << >>
\* the three backquotes of a markdown code fence
Fence == "FENCE"
\* one backquote
Tick1 == "BACKQUOTE"

Str(tok) == <<tok>>

Contains(s, tok) == \E i \in 1..Len(s) : s[i] = tok

IndexOf(s, tok) == CHOOSE i \in 1..Len(s) : s[i] = tok /\ \A j \in 1..(i-1) : s[j] # tok

\* strings.ReplaceAll(s, old, new) for one-token old
ReplaceAll(s, old, new) == [i \in 1..Len(s) |-> IF s[i] = old THEN new ELSE s[i]]

\* strings.HasPrefix(s, p) for one-token p
HasPrefix(s, tok) == Len(s) >= 1 /\ s[1] = tok

RECURSIVE SplitN(_, _, _)
\* strings.SplitN(s, sep, n), n >= 1: at most n pieces, the last one unsplit
SplitN(s, sep, n) ==
    IF n <= 1 \/ ~Contains(s, sep)
    THEN <<s>>
    ELSE LET i == IndexOf(s, sep)
         IN  <<SubSeq(s, 1, i - 1)>> \o SplitN(SubSeq(s, i + 1, Len(s)), sep, n - 1)

IsSpace(tok) == tok \in {NL, SP, "\t", "\r"}

RECURSIVE TrimLeft(_)
TrimLeft(s) == IF s # Empty /\ IsSpace(Head(s)) THEN TrimLeft(Tail(s)) ELSE s

RECURSIVE TrimRight(_)
TrimRight(s) ==
    IF s # Empty /\ IsSpace(s[Len(s)]) THEN TrimRight(SubSeq(s, 1, Len(s) - 1)) ELSE s

\* strings.TrimSpace
TrimSpace(s) == TrimRight(TrimLeft(s))

----------------------------------------------------------------------------
(* The file system *)

NoInfo == [none |-> TRUE]

Exists(fs, path) == path \in DOMAIN fs

\* os.WriteFile on success: the whole content replaces the file, mtime is now
WriteFile(fs, path, data, t) ==
    [p \in DOMAIN fs \cup {path} |-> IF p = path THEN [data |-> data, mtime |-> t] ELSE fs[p]]

\* os.Remove
RemoveFile(fs, path) == [p \in DOMAIN fs \ {path} |-> fs[p]]

\* os.RemoveAll(dir): every file whose path starts with dir
RemoveAll(fs, dir) ==
    [p \in {q \in DOMAIN fs : ~(Len(q) >= Len(dir) /\ SubSeq(q, 1, Len(dir)) = dir)} |-> fs[p]]

\* filepath.Join(cacheDir, subpath...): the cache directory is the root of `files`
GetFilePath(subpath) == subpath

----------------------------------------------------------------------------
(* cache.Manager *)

\* variant: an entry expires as soon as its age reaches the TTL
IsExpiredAtTTL(fs, t, ttlv, path) ==
    IF ttlv = 0 THEN FALSE
    ELSE IF ~Exists(fs, path) THEN TRUE
    ELSE (t - fs[path].mtime) >= ttlv

\* variant: TTL 0 is not special, so every entry older than 0 ticks is expired
IsExpiredNoZero(fs, t, ttlv, path) ==
    IF ~Exists(fs, path) THEN TRUE
    ELSE (t - fs[path].mtime) > ttlv

\* Manager.IsExpired: TTL 0 never expires; a missing file counts as expired;
\* otherwise expired iff age > ttl
IsExpired(fs, t, ttlv, path) ==
    IF ttlv = 0 THEN FALSE
    ELSE IF ~Exists(fs, path) THEN TRUE
    ELSE (t - fs[path].mtime) > ttlv

JSONValues == {"x", "y"}

\* json.MarshalIndent of a value
JSONMarshal(v) == <<"{", v, "}">>

\* json.Unmarshal: [ok, v]
JSONUnmarshal(data) ==
    IF Len(data) = 3 /\ data[1] = "{" /\ data[3] = "}" /\ data[2] \in JSONValues
    THEN [ok |-> TRUE, v |-> data[2]]
    ELSE [ok |-> FALSE, v |-> "none"]

CachePaths == {<<"c", Str("k1")>>, <<"c", Str("k2")>>}

\* what an observer records about one operation
Obs(op, path, outcome, stale, value) ==
    [op |-> op, path |-> path, subject |-> Empty, version |-> Empty,
     outcome |-> outcome, stale |-> stale, value |-> value, body |-> Empty,
     info |-> NoInfo, retrievals |-> 0, netcalls |-> 0, netfailed |-> FALSE,
     saved |-> FALSE, cold |-> FALSE, time |-> now]

\* the file system after Manager.Load(path)
LoadFiles(fs, t, ttlv, path) ==
    IF IsExpired(fs, t, ttlv, path) /\ ttlv > 0 /\ Exists(fs, path)
    THEN RemoveFile(fs, path)
    ELSE fs

\* variant: a failed ReadFile is an error also when the file does not exist
LoadResultNotExistIsError(fs, t, ttlv, path) ==
    IF IsExpired(fs, t, ttlv, path) THEN [outcome |-> "miss", v |-> "none"]
    ELSE IF ~Exists(fs, path) THEN [outcome |-> "error", v |-> "none"]
    ELSE LET u == JSONUnmarshal(fs[path].data)
         IN  IF u.ok THEN [outcome |-> "hit", v |-> u.v]
             ELSE [outcome |-> "error", v |-> "none"]

\* the result of Manager.Load(path): "hit" (true, nil), "miss" (false, nil), "error"
LoadResult(fs, t, ttlv, path) ==
    IF IsExpired(fs, t, ttlv, path) THEN [outcome |-> "miss", v |-> "none"]
    ELSE IF ~Exists(fs, path) THEN [outcome |-> "miss", v |-> "none"]
    ELSE LET u == JSONUnmarshal(fs[path].data)
         IN  IF u.ok THEN [outcome |-> "hit", v |-> u.v]
             ELSE [outcome |-> "error", v |-> "none"]

\* Manager.Load
ManagerLoad(path) ==
    /\ last' = Obs("Load", path, LoadResult(files, now, ttl, path).outcome,
                   Exists(files, path) /\ IsExpired(files, now, ttl, path),
                   LoadResult(files, now, ttl, path).v)
    /\ files' = LoadFiles(files, now, ttl, path)
    /\ UNCHANGED <<ttl, now, probes, resolution, calls, server>>

\* Manager.Save: MkdirAll, MarshalIndent, WriteFile; on a failure of MkdirAll
\* nothing is written
ManagerSave(path, v, ok) ==
    /\ files' = IF ok THEN WriteFile(files, path, JSONMarshal(v), now) ELSE files
    /\ last' = [Obs("Save", path, IF ok THEN "ok" ELSE "error", FALSE, v)
                  EXCEPT !.saved = ok]
    /\ UNCHANGED <<ttl, now, probes, resolution, calls, server>>

\* Manager.Remove
ManagerRemove(path) ==
    /\ files' = RemoveFile(files, path)
    /\ last' = Obs("Remove", path, IF Exists(files, path) THEN "ok" ELSE "error", FALSE, "none")
    /\ UNCHANGED <<ttl, now, probes, resolution, calls, server>>

\* Manager.Clear
ManagerClear(dir) ==
    /\ files' = RemoveAll(files, dir)
    /\ last' = Obs("Clear", dir, "ok", FALSE, "none")
    /\ UNCHANGED <<ttl, now, probes, resolution, calls, server>>

\* the clock advances
Tick ==
    /\ now < MaxTime
    /\ now' = now + 1
    /\ UNCHANGED <<ttl, files, last, probes, resolution, calls, server>>

\* a file that is not a record: the delimiter once, or a header that does not parse
CorruptContents == {<<Delim>>, <<Delim, NL, "garbage", NL, Delim, NL>>}

\* some other program writes a malformed file at a cache location
ExternalWrite(path, data) ==
    /\ files' = WriteFile(files, path, data, now)
    /\ last' = Obs("ExternalWrite", path, "ok", FALSE, "none")
    /\ UNCHANGED <<ttl, now, probes, resolution, calls, server>>

Idle == [idle |-> TRUE]

InitCache ==
    /\ ttl \in TTLs
    /\ now = 0
    /\ files = << >>
    /\ last = Obs("none", Empty, "none", FALSE, "none")
    /\ probes = Idle
    /\ resolution = Idle
    /\ calls = Idle
    /\ server = Idle

NextCache ==
    \/ Tick
    \/ \E path \in CachePaths : ManagerLoad(path)
    \/ \E path \in CachePaths, v \in JSONValues, ok \in BOOLEAN : ManagerSave(path, v, ok)
    \/ \E path \in CachePaths : ManagerRemove(path)
    \/ ManagerClear(<<"c">>)
    \/ \E path \in CachePaths, data \in CorruptContents : ExternalWrite(path, data)

SpecCache == InitCache /\ [][NextCache]_vars

----------------------------------------------------------------------------
(* The record codec: YAML frontmatter between two delimiter lines, then the body *)

\* one frontmatter line as the fetchers print it: key: "value"\n
Line(key, value) == <<key, ":", SP, Quote>> \o value \o <<Quote, NL>>

\* a line that is written only when the field is not empty
OptLine(key, value, printed) == IF value = Empty THEN Empty ELSE Line(key, printed)

RECURSIVE EscapeTok(_, _, _)
\* strings.ReplaceAll(s, tok, by) for a replacement of several tokens
EscapeTok(s, tok, by) ==
    IF s = Empty THEN Empty
    ELSE (IF Head(s) = tok THEN by ELSE <<Head(s)>>) \o EscapeTok(Tail(s), tok, by)

\* variant: nothing is escaped
escapeNothing(s) == s

\* escapeYAMLString: '"' -> '\"', then newline -> '\n'
escapeYAMLString(s) == EscapeTok(EscapeTok(s, Quote, <<BS, Quote>>), NL, <<BS, "n">>)

RECURSIVE ScanQuoted(_, _, _)
\* yaml: the double-quoted scalar of h that opens before position i.
\* [ok, val, next]: the value and the position after the closing quote.
ScanQuoted(h, i, acc) ==
    IF i > Len(h) THEN [ok |-> FALSE, val |-> acc, next |-> i]
    ELSE IF h[i] = Quote THEN [ok |-> TRUE, val |-> acc, next |-> i + 1]
    ELSE IF h[i] = BS
         THEN IF i + 1 > Len(h) THEN [ok |-> FALSE, val |-> acc, next |-> i]
              ELSE IF h[i + 1] = Quote THEN ScanQuoted(h, i + 2, Append(acc, Quote))
              ELSE IF h[i + 1] = BS THEN ScanQuoted(h, i + 2, Append(acc, BS))
              ELSE IF h[i + 1] = "n" THEN ScanQuoted(h, i + 2, Append(acc, NL))
              ELSE [ok |-> FALSE, val |-> acc, next |-> i]
    ELSE IF h[i] = NL THEN ScanQuoted(h, i + 1, Append(acc, SP))
    ELSE ScanQuoted(h, i + 1, Append(acc, h[i]))

NoFields == [k \in {} |-> Empty]

RECURSIVE ParseLines(_, _, _)
\* yaml: a block mapping of key: "value" lines from position i on.
\* [ok, fields]; a line of any other shape, or a key given twice, is an error.
ParseLines(h, i, acc) ==
    IF i > Len(h) THEN [ok |-> TRUE, fields |-> acc]
    ELSE IF h[i] = NL THEN ParseLines(h, i + 1, acc)
    ELSE IF i + 3 <= Len(h) /\ h[i + 1] = ":" /\ h[i + 2] = SP /\ h[i + 3] = Quote
              /\ h[i] \notin {Quote, BS, SP, ":"} /\ h[i] \notin DOMAIN acc
         THEN LET q == ScanQuoted(h, i + 4, Empty)
              IN  IF q.ok /\ (q.next > Len(h) \/ h[q.next] = NL)
                  THEN ParseLines(h, q.next,
                           [k \in DOMAIN acc \cup {h[i]} |-> IF k = h[i] THEN q.val ELSE acc[k]])
                  ELSE [ok |-> FALSE, fields |-> acc]
    ELSE [ok |-> FALSE, fields |-> acc]

\* yaml.Unmarshal(frontmatter, &meta)
YAMLUnmarshal(h) == ParseLines(h, 1, NoFields)

\* meta.<key>: a key the frontmatter does not give stays the empty string
Field(fields, key) == IF key \in DOMAIN fields THEN fields[key] ELSE Empty

----------------------------------------------------------------------------
(* PythonFetcher *)

PythonPackageInfo(name, version, summary, homepage, repository, license, author, content) ==
    [Name |-> name, Version |-> version, Summary |-> summary, Homepage |-> homepage,
     Repository |-> repository, License |-> license, Author |-> author, Content |-> content]

\* "==<version>" and "@<version>" are printed only for a non-empty version
Pinned(sep, version) == IF version = Empty THEN Empty ELSE <<sep>> \o version

\* PythonFetcher.buildPackageContent
buildPackageContent(info) ==
    <<"# ">> \o info.Name \o <<NL, NL>>
    \o (IF info.Summary # Empty THEN <<"**Summary:** ">> \o info.Summary \o <<NL, NL>> ELSE Empty)
    \o <<"**Version:** ">> \o info.Version \o <<NL, NL>>
    \o (IF info.Author # Empty THEN <<"**Author:** ">> \o info.Author \o <<NL, NL>> ELSE Empty)
    \o (IF info.License # Empty THEN <<"**License:** ">> \o info.License \o <<NL, NL>> ELSE Empty)
    \o (IF info.Homepage # Empty THEN <<"**Homepage:** ">> \o info.Homepage \o <<NL, NL>> ELSE Empty)
    \o (IF info.Repository # Empty
        THEN <<"**Repository:** ">> \o info.Repository \o <<NL, NL>> ELSE Empty)
    \o <<"## Installation", NL, NL, Fence, "bash", NL, "pip install ">> \o info.Name
    \o Pinned("==", info.Version) \o <<NL, Fence, NL, NL>>
    \o <<"### Using requirements.txt", NL, NL, Fence, NL>> \o info.Name
    \o Pinned("==", info.Version) \o <<NL, Fence, NL, NL>>
    \o <<"### Using Poetry", NL, NL, Fence, "bash", NL, "poetry add ">> \o info.Name
    \o Pinned("@", info.Version) \o <<NL, Fence, NL, NL>>
    \o <<"## Documentation", NL, NL, "For detailed documentation, visit [PyPI](https://pypi.org/project/">>
    \o info.Name \o <<"/)", NL>>

\* the bytes PythonFetcher.savePackageInfoAsMarkdown writes
PackageMarkdown(info) ==
    <<Delim, NL>>
    \o Line("name", info.Name)
    \o Line("version", info.Version)
    \o OptLine("summary", info.Summary, escapeYAMLString(info.Summary))
    \o OptLine("homepage", info.Homepage, info.Homepage)
    \o OptLine("repository", info.Repository, info.Repository)
    \o OptLine("license", info.License, escapeYAMLString(info.License))
    \o OptLine("author", info.Author, escapeYAMLString(info.Author))
    \o <<Delim, NL, NL>>
    \o info.Content

\* PythonFetcher.savePackageInfoAsMarkdown: on a failed MkdirAll nothing is written
savePackageInfoAsMarkdown(fs, t, path, info, ok) ==
    IF ok THEN WriteFile(fs, path, PackageMarkdown(info), t) ELSE fs

\* PythonFetcher.loadPackageInfoFromMarkdown: [ok, info]; ok = FALSE is the error return
loadPackageInfoFromMarkdown(fs, t, ttlv, path) ==
    IF IsExpired(fs, t, ttlv, path) THEN [ok |-> FALSE, info |-> NoInfo]
    ELSE IF ~Exists(fs, path) THEN [ok |-> FALSE, info |-> NoInfo]
    ELSE LET parts == SplitN(fs[path].data, Delim, 3)
         IN  IF Len(parts) < 3 THEN [ok |-> FALSE, info |-> NoInfo]
             ELSE LET meta == YAMLUnmarshal(parts[2])
                  IN  IF ~meta.ok THEN [ok |-> FALSE, info |-> NoInfo]
                      ELSE [ok |-> TRUE,
                            info |-> PythonPackageInfo(
                                Field(meta.fields, "name"), Field(meta.fields, "version"),
                                Field(meta.fields, "summary"), Field(meta.fields, "homepage"),
                                Field(meta.fields, "repository"), Field(meta.fields, "license"),
                                Field(meta.fields, "author"), TrimSpace(parts[3]))]

\* variant: the lookup removes an expired file, as Manager.Load does
LookupFilesRemoving(fs, t, ttlv, path) == LoadFiles(fs, t, ttlv, path)

\* the file system after loadPackageInfoFromMarkdown: it stats and reads, and neither
\* removes nor writes anything, also when the file is expired
LookupFiles(fs, t, ttlv, path) == fs

\* the path FetchPackageInfo looks up and writes
PyCachedPath(packageName, version) ==
    LET safe == ReplaceAll(packageName, "/", "_")
        safeName == IF version # Empty THEN safe \o <<"_">> \o version ELSE safe
    IN  GetFilePath(<<"python", "packages", safeName \o <<".md">> >>)

ProjectURLKeys == <<"Repository", "Source", "Source Code", "GitHub", "GitLab">>

RECURSIVE FirstRepository(_, _)
\* the first of the common repository keys that project_urls gives a non-empty URL for
FirstRepository(urls, i) ==
    IF i > Len(ProjectURLKeys) THEN Empty
    ELSE IF ProjectURLKeys[i] \in DOMAIN urls /\ urls[ProjectURLKeys[i]] # Empty
         THEN urls[ProjectURLKeys[i]]
         ELSE FirstRepository(urls, i + 1)

\* getStringFromMap
getStringFromMap(data, key) == IF key \in DOMAIN data THEN data[key] ELSE Empty

\* the "info" sections pypi.org answers with
PyPIInfos ==
    { [name |-> Str("requests"), version |-> Str("1.0"), summary |-> <<"HTTP", SP, Quote, "for", Quote>>,
       home_page |-> Str("https://h"), license |-> Str("MIT"), author |-> Str("kr"),
       project_urls |-> [k \in {"Source", "GitHub"} |-> <<"https://", k>>]],
      [name |-> Str("requests"), version |-> Str("2.0")] }

\* the ways the transport and pypi.org can fail a request
PyFailures == {"transport", "notfound", "status", "read", "parse"}

\* what the outside world does to one request: the source fails it, or answers it
\* and the record is then written (saved) or cannot be written
PyOutcomes == [kind : PyFailures] \cup [kind : {"ok"}, info : PyPIInfos, saved : BOOLEAN]

\* the record FetchPackageInfo extracts from a parsed response
ExtractPackageInfo(info) ==
    LET base == PythonPackageInfo(
                    getStringFromMap(info, "name"), getStringFromMap(info, "version"),
                    getStringFromMap(info, "summary"), getStringFromMap(info, "home_page"),
                    IF "project_urls" \in DOMAIN info
                        THEN FirstRepository(info.project_urls, 1) ELSE Empty,
                    getStringFromMap(info, "license"), getStringFromMap(info, "author"), Empty)
    IN  [base EXCEPT !.Content = buildPackageContent(base)]

\* an observation of one fetcher request
FetchObs(op, path, subject, version, outcome, stale, info, body, retrievals, netcalls, netfailed, saved, cold) ==
    [op |-> op, path |-> path, subject |-> subject, version |-> version,
     outcome |-> outcome, stale |-> stale, value |-> "none", body |-> body,
     info |-> info, retrievals |-> retrievals, netcalls |-> netcalls,
     netfailed |-> netfailed, saved |-> saved, cold |-> cold, time |-> now]

\* PythonFetcher.FetchPackageInfo
FetchPackageInfo(packageName, version, net) ==
    LET cachedPath == PyCachedPath(packageName, version)
        cached == loadPackageInfoFromMarkdown(files, now, ttl, cachedPath)
        stale == Exists(files, cachedPath) /\ IsExpired(files, now, ttl, cachedPath)
        cold == ~Exists(files, cachedPath)
    IN  /\ UNCHANGED <<ttl, now, probes, resolution, calls, server>>
        /\ IF cached.ok
           THEN /\ files' = LookupFiles(files, now, ttl, cachedPath)
                /\ last' = FetchObs("FetchPackageInfo", cachedPath, packageName, version, "hit",
                                    stale, cached.info, cached.info.Content, 0, 0, FALSE,
                                    FALSE, cold)
           ELSE IF net.kind # "ok"
           THEN /\ files' = LookupFiles(files, now, ttl, cachedPath)
                /\ last' = FetchObs("FetchPackageInfo", cachedPath, packageName, version, "error",
                                    stale, NoInfo, Empty, 1, 1, TRUE, FALSE, cold)
           ELSE LET pkgInfo == ExtractPackageInfo(net.info)
                IN  /\ files' = savePackageInfoAsMarkdown(LookupFiles(files, now, ttl, cachedPath),
                                                              now, cachedPath, pkgInfo, net.saved)
                    /\ last' = FetchObs("FetchPackageInfo", cachedPath, packageName, version,
                                        "fetched", stale, pkgInfo, pkgInfo.Content, 1, 1, FALSE,
                                        net.saved, cold)

PyNames == {Str("requests")}
PyVersions == {Empty, Str("1.0")}
PyPaths == {PyCachedPath(n, v) : n \in PyNames, v \in PyVersions}

InitPy ==
    /\ ttl \in TTLs
    /\ now = 0
    /\ files = << >>
    /\ last = Obs("none", Empty, "none", FALSE, "none")
    /\ probes = Idle
    /\ resolution = Idle
    /\ calls = Idle
    /\ server = Idle

NextPy ==
    \/ Tick
    \/ \E n \in PyNames, v \in PyVersions, net \in PyOutcomes : FetchPackageInfo(n, v, net)
    \/ \E path \in PyPaths, data \in CorruptContents : ExternalWrite(path, data)

SpecPy == InitPy /\ [][NextPy]_vars

----------------------------------------------------------------------------
(* GoFetcher: version resolution *)

\* getLatestVersion probes the base path and the suffixes /v2 ... /v10
MaxMajor == 10

Probes == 1..MaxMajor

Digits == <<"1", "2", "3", "4", "5", "6", "7", "8", "9">>

\* fmt's %d of a small positive number
Itoa(n) == IF n < 10 THEN <<Digits[n]>>
           ELSE <<Digits[n \div 10]>> \o (IF n % 10 = 0 THEN <<"0">> ELSE <<Digits[n % 10]>>)

\* fmt.Sprintf("%s/v%d", importPath, major)
TestPath(importPath, major) == importPath \o <<"/", "v">> \o Itoa(major)

\* the path probe number i asks the proxy about: 1 is the base path
ProbePath(importPath, i) == IF i = 1 THEN importPath ELSE TestPath(importPath, i)

\* the version proxy.golang.org reports as latest of major line i
ProxyVersion(i) == <<"v">> \o Itoa(i) \o <<".", "0", ".", "0">>

\* the ways one @latest request ends: the transport fails, the status is not 200,
\* the body is not JSON, or the body decodes (a body without "Version" decodes too)
ProxyFailures == {"transport", "status", "decode"}

\* GoFetcher.queryProxyLatest on one answer: [err, version]
queryProxyLatest(answer) ==
    IF answer.kind = "ok" THEN [err |-> FALSE, version |-> answer.version]
    ELSE [err |-> TRUE, version |-> Empty]

RECURSIVE ProbeSuffixes(_, _, _, _)
\* the loop over major = 2 .. 10: every answer without error replaces the candidate
ProbeSuffixes(importPath, px, major, best) ==
    IF major > MaxMajor THEN best
    ELSE LET q == queryProxyLatest(px[major])
         IN  ProbeSuffixes(importPath, px, major + 1,
                 IF ~q.err
                 THEN [latestVersion |-> q.version, latestPath |-> TestPath(importPath, major),
                       queries |-> best.queries + 1]
                 ELSE [best EXCEPT !.queries = @ + 1])

\* the candidate after all probes: the base probe, then the suffix loop
ProbeAll(importPath, px) ==
    LET b == queryProxyLatest(px[1])
    IN  ProbeSuffixes(importPath, px, 2,
            IF ~b.err
            THEN [latestVersion |-> b.version, latestPath |-> importPath, queries |-> 1]
            ELSE [latestVersion |-> Empty, latestPath |-> Empty, queries |-> 1])

\* variant: without the test for an empty candidate
getLatestVersionUnchecked(importPath, px) ==
    LET best == ProbeAll(importPath, px)
    IN  IF best.latestPath # importPath
        THEN [err |-> FALSE, value |-> best.latestVersion \o <<":">> \o best.latestPath,
              queries |-> best.queries]
        ELSE [err |-> FALSE, value |-> best.latestVersion, queries |-> best.queries]

\* GoFetcher.getLatestVersion: [err, value, queries]; value is "version" or
\* "version:path" when the candidate came from a suffixed path
getLatestVersion(importPath, px) ==
    LET best == ProbeAll(importPath, px)
    IN  IF best.latestVersion = Empty
        THEN [err |-> TRUE, value |-> Empty, queries |-> best.queries]
        ELSE IF best.latestPath # importPath
        THEN [err |-> FALSE, value |-> best.latestVersion \o <<":">> \o best.latestPath,
              queries |-> best.queries]
        ELSE [err |-> FALSE, value |-> best.latestVersion, queries |-> best.queries]

\* one resolution: getLatestVersion(importPath) against the answers in `probes`
Resolve(importPath) ==
    /\ resolution = Idle
    /\ resolution' = [importPath |-> importPath, result |-> getLatestVersion(importPath, probes)]
    /\ UNCHANGED <<ttl, now, files, last, probes, calls, server>>

GoImportPath == <<"example.com", "/", "mod">>

\* the answers to the ten probes: each probe fails (all failures of one resolution
\* being of one kind), reports its line's version, or decodes to an empty version
Answers(failure, shape) ==
    [i \in Probes |-> IF shape[i] = "fail" THEN [kind |-> failure]
                      ELSE IF shape[i] = "empty" THEN [kind |-> "ok", version |-> Empty]
                      ELSE [kind |-> "ok", version |-> ProxyVersion(i)]]

InitResolve ==
    /\ ttl = 0
    /\ now = 0
    /\ files = << >>
    /\ last = Obs("none", Empty, "none", FALSE, "none")
    /\ \E failure \in ProxyFailures, shape \in [Probes -> {"fail", "ok", "empty"}] :
           probes = Answers(failure, shape)
    /\ resolution = Idle
    /\ calls = Idle
    /\ server = Idle

NextResolve ==
    \/ Resolve(GoImportPath)

SpecResolve == InitResolve /\ [][NextResolve]_vars

----------------------------------------------------------------------------
(* GoFetcher: library information *)

LibraryInfo(importPath, version, synopsis, description, repository, license) ==
    [ImportPath |-> importPath, Version |-> version, Synopsis |-> synopsis,
     Description |-> description, Repository |-> repository, License |-> license]

\* the pkg.go.dev URL of a library page
PkgGoDevURL(importPath, version) ==
    <<"https://pkg.go.dev", "/">> \o importPath \o Pinned("@", version)

\* GoFetcher.extractLibraryDescription
extractLibraryDescription(doc, importPath, version) ==
    <<"# ">> \o importPath \o <<NL, NL>>
    \o <<"**Version:** ">> \o (IF version # Empty THEN version ELSE <<"latest">>) \o <<NL, NL>>
    \o <<"**Import path:** ", Tick1>> \o importPath \o <<Tick1, NL, NL>>
    \o (IF doc.synopsis # Empty THEN doc.synopsis \o <<NL, NL>> ELSE Empty)
    \o (IF doc.repository # Empty
        THEN <<"**Repository:** ">> \o doc.repository \o <<NL, NL>> ELSE Empty)
    \o (IF doc.license # Empty THEN <<"**License:** ">> \o doc.license \o <<NL, NL>> ELSE Empty)
    \o <<"## Installation", NL, NL, Fence, "bash", NL, "go get ">> \o importPath
    \o Pinned("@", version) \o <<NL, Fence, NL, NL>>
    \o <<"## Import", NL, NL, Fence, "go", NL, "import ", Quote>> \o importPath
    \o <<Quote, NL, Fence, NL, NL>>
    \o <<"## Documentation", NL, NL,
         "For detailed documentation and examples, visit [pkg.go.dev](">>
    \o PkgGoDevURL(importPath, version) \o <<")", NL>>

\* the bytes GoFetcher.saveLibraryInfoAsMarkdown writes
LibraryMarkdown(info) ==
    <<Delim, NL>>
    \o Line("importPath", info.ImportPath)
    \o OptLine("version", info.Version, info.Version)
    \o OptLine("synopsis", info.Synopsis, EscapeTok(info.Synopsis, Quote, <<BS, Quote>>))
    \o OptLine("repository", info.Repository, info.Repository)
    \o OptLine("license", info.License, info.License)
    \o <<Delim, NL, NL>>
    \o info.Description

\* variant: a file that is already there is left as it is
saveLibraryInfoKeepingExisting(fs, t, path, info, ok) ==
    IF ok /\ ~Exists(fs, path) THEN WriteFile(fs, path, LibraryMarkdown(info), t) ELSE fs

\* GoFetcher.saveLibraryInfoAsMarkdown: on a failed MkdirAll nothing is written
saveLibraryInfoAsMarkdown(fs, t, path, info, ok) ==
    IF ok THEN WriteFile(fs, path, LibraryMarkdown(info), t) ELSE fs

\* the file name both FetchLibraryInfo and cacheLibraryInfo compute
GoCachedPath(importPath, version) ==
    LET cacheKey == ReplaceAll(importPath, "/", "_")
        filename == IF version # Empty THEN cacheKey \o <<"_">> \o version ELSE cacheKey
    IN  GetFilePath(<<"go", "libraries", filename \o <<".md">> >>)

\* variant: the file name is built from the import path alone
cacheLibraryInfoUnversioned(fs, t, info, ok) ==
    saveLibraryInfoAsMarkdown(fs, t, GoCachedPath(info.ImportPath, Empty), info, ok)

\* GoFetcher.cacheLibraryInfo
cacheLibraryInfo(fs, t, info, ok) ==
    saveLibraryInfoAsMarkdown(fs, t, GoCachedPath(info.ImportPath, info.Version), info, ok)

\* GoFetcher.loadLibraryInfoFromMarkdown: [ok, info]; ok = FALSE is the error return
loadLibraryInfoFromMarkdown(fs, t, ttlv, path) ==
    IF IsExpired(fs, t, ttlv, path) THEN [ok |-> FALSE, info |-> NoInfo]
    ELSE IF ~Exists(fs, path) THEN [ok |-> FALSE, info |-> NoInfo]
    ELSE LET parts == SplitN(fs[path].data, Delim, 3)
         IN  IF Len(parts) < 3 THEN [ok |-> FALSE, info |-> NoInfo]
             ELSE LET meta == YAMLUnmarshal(parts[2])
                  IN  IF ~meta.ok THEN [ok |-> FALSE, info |-> NoInfo]
                      ELSE [ok |-> TRUE,
                            info |-> LibraryInfo(
                                Field(meta.fields, "importPath"), Field(meta.fields, "version"),
                                Field(meta.fields, "synopsis"), TrimSpace(parts[3]),
                                Field(meta.fields, "repository"), Field(meta.fields, "license"))]

\* the version and the import path FetchLibraryInfo goes on with after the
\* resolution step: a failed resolution leaves both as they were given
ResolvedRequest(importPath, version, px) ==
    IF version # Empty THEN [importPath |-> importPath, version |-> version, queries |-> 0,
                             failed |-> FALSE, probeFailed |-> FALSE, latest |-> Empty]
    ELSE LET latest == getLatestVersion(importPath, px)
             probeFailed == \E i \in Probes : queryProxyLatest(px[i]).err
         IN  IF latest.err
             THEN [importPath |-> importPath, version |-> version, queries |-> latest.queries,
                   failed |-> TRUE, probeFailed |-> probeFailed, latest |-> Empty]
             ELSE IF Contains(latest.value, ":")
             THEN LET parts == SplitN(latest.value, ":", 2)
                  IN  [importPath |-> parts[2], version |-> parts[1],
                       queries |-> latest.queries, failed |-> FALSE,
                       probeFailed |-> probeFailed, latest |-> latest.value]
             ELSE [importPath |-> importPath, version |-> latest.value,
                   queries |-> latest.queries, failed |-> FALSE, probeFailed |-> probeFailed,
                   latest |-> latest.value]

\* the file at path is there and is not a record
Malformed(fs, path) ==
    /\ Exists(fs, path)
    /\ LET parts == SplitN(fs[path].data, Delim, 3)
       IN  Len(parts) < 3 \/ ~YAMLUnmarshal(parts[2]).ok

\* the ways the transport and pkg.go.dev can fail the page request
GoFailures == {"transport", "status"}

\* what the parsed page gives for synopsis, repository and license
GoDocs ==
    { [synopsis |-> <<"A", SP, Quote, "mod", Quote>>, repository |-> Str("https://r"),
       license |-> Empty] }

\* what the outside world does to the page request of one FetchLibraryInfo
GoOutcomes == [kind : GoFailures] \cup [kind : {"ok"}, doc : GoDocs, saved : BOOLEAN]

\* what an observer of one FetchLibraryInfo sees besides the common observation: the
\* state of the looked-up file, the resolution's result, the URL requested from
\* pkg.go.dev (empty: none), and ImportPath and Version of the returned record
GoSeen(fs, cachedPath, req, url, importPath, version) ==
    [malformed |-> Malformed(fs, cachedPath), resolutionFailed |-> req.failed,
     probeFailed |-> req.probeFailed, latest |-> req.latest, url |-> url,
     ImportPath |-> importPath, Version |-> version]

\* GoFetcher.FetchLibraryInfo, with the proxy answering the probes as px says and
\* pkg.go.dev answering the page request as net says. Of the returned record the
\* observation keeps the Description, which is what getGoInfo hands to the caller.
FetchLibraryInfo(importPath, version, px, net) ==
    LET req == ResolvedRequest(importPath, version, px)
        cachedPath == GoCachedPath(req.importPath, req.version)
        cached == loadLibraryInfoFromMarkdown(files, now, ttl, cachedPath)
        stale == Exists(files, cachedPath) /\ IsExpired(files, now, ttl, cachedPath)
        cold == ~Exists(files, cachedPath)
        url == PkgGoDevURL(req.importPath, req.version)
    IN  /\ UNCHANGED <<ttl, now, probes, resolution, calls, server>>
        /\ IF cached.ok
           THEN /\ files' = files
                /\ last' = [FetchObs("FetchLibraryInfo", cachedPath, importPath, version, "hit",
                                     stale, NoInfo, cached.info.Description, 0,
                                     req.queries, req.probeFailed, FALSE, cold)
                              EXCEPT !.value = GoSeen(files, cachedPath, req, Empty,
                                                      cached.info.ImportPath,
                                                      cached.info.Version)]
           ELSE IF net.kind # "ok"
           THEN /\ files' = files
                /\ last' = [FetchObs("FetchLibraryInfo", cachedPath, importPath, version,
                                     "error", stale, NoInfo, Empty, 1, req.queries + 1, TRUE,
                                     FALSE, cold)
                              EXCEPT !.value = GoSeen(files, cachedPath, req, url, Empty, Empty)]
           ELSE LET libInfo == LibraryInfo(req.importPath, req.version, net.doc.synopsis,
                                   extractLibraryDescription(net.doc, req.importPath,
                                                             req.version),
                                   net.doc.repository, net.doc.license)
                IN  /\ files' = cacheLibraryInfo(files, now, libInfo, net.saved)
                    /\ last' = [FetchObs("FetchLibraryInfo", cachedPath, importPath, version,
                                         "fetched", stale, NoInfo, libInfo.Description, 1,
                                         req.queries + 1, req.probeFailed, net.saved, cold)
                                  EXCEPT !.value = GoSeen(files, cachedPath, req, url,
                                                          libInfo.ImportPath, libInfo.Version)]

\* what the proxy answers during one request: nothing can be reached, or the base,
\* /v2 and /v4 have versions and the other suffixes are answered with a non-success
\* status
Unreachable == Answers("transport", [i \in Probes |-> "fail"])
BaseV2V4 == Answers("status", [i \in Probes |-> IF i \in {1, 2, 4} THEN "ok" ELSE "fail"])

\* the requests of SpecGo: the module without a version under each of the proxy's
\* behaviours, and its /v4 line with an explicit version, for which the proxy is
\* not asked
GoRequests ==
    [importPath : {GoImportPath}, version : {Empty}, px : {Unreachable, BaseV2V4}]
        \cup [importPath : {TestPath(GoImportPath, 4)}, version : {ProxyVersion(4)},
              px : {Unreachable}]

\* the locations the requests of SpecGo look up
GoPaths ==
    { GoCachedPath(ResolvedRequest(r.importPath, r.version, r.px).importPath,
                   ResolvedRequest(r.importPath, r.version, r.px).version) : r \in GoRequests }

InitGo ==
    /\ ttl \in TTLs
    /\ now = 0
    /\ files = << >>
    /\ last = Obs("none", Empty, "none", FALSE, "none")
    /\ probes = Idle
    /\ resolution = Idle
    /\ calls = Idle
    /\ server = Idle

NextGo ==
    \/ Tick
    \/ \E r \in GoRequests, net \in GoOutcomes :
           FetchLibraryInfo(r.importPath, r.version, r.px, net)
    \/ \E path \in GoPaths, data \in CorruptContents : ExternalWrite(path, data)

SpecGo == InitGo /\ [][NextGo]_vars

----------------------------------------------------------------------------
(* Cache keys of the fetchers *)

\* subjects and versions of the key computations are at most this long
MaxKeyLen == 3

\* strings.Split(s, sep)
Split(s, sep) == SplitN(s, sep, Len(s) + 1)

\* parseImageName: "golang" -> (library, golang), "user/app" -> (user, app)
parseImageName(image) ==
    LET parts == Split(image, "/")
    IN  IF Len(parts) = 1 THEN [namespace |-> Str("library"), repository |-> parts[1]]
        ELSE [namespace |-> parts[1], repository |-> parts[2]]

\* the path FetchDockerImage looks up and writes
DockerCachedPath(image, tag) ==
    LET n == parseImageName(image)
        cacheKey == n.namespace \o <<"_">> \o n.repository \o <<"_">> \o tag
    IN  GetFilePath(<<"docker", "images", cacheKey \o <<".md">> >>)

KeySources == {"go", "python", "docker"}

\* the cache file of (subject, version) in a source; for "go" the version is the one
\* FetchLibraryInfo goes on with after its resolution step
CachedPathOf(source, subject, version) ==
    IF source = "go" THEN GoCachedPath(subject, version)
    ELSE IF source = "python" THEN PyCachedPath(subject, version)
    ELSE DockerCachedPath(subject, version)

KeyTokens == {"a", "/", "_"}

\* a subject: path elements separated by single slashes
WellFormedSubject(x) ==
    /\ x[1] # "/" /\ x[Len(x)] # "/"
    /\ \A i \in 1..(Len(x) - 1) : ~(x[i] = "/" /\ x[i + 1] = "/")

KeySubjects ==
    {x \in UNION {[1..n -> KeyTokens] : n \in 1..MaxKeyLen} : WellFormedSubject(x)}

KeyVersions == {Empty, Str("a")}

KeyRequests == [subject : KeySubjects, version : KeyVersions]

\* the cache files of two requests to one source are computed
ComputeKeys(source, a, b) ==
    /\ last.op = "none"
    /\ last' = [Obs("CacheKey", CachedPathOf(source, a.subject, a.version), "ok", FALSE,
                    "none")
                  EXCEPT !.value = [source |-> source, a |-> a, b |-> b,
                                    pathA |-> CachedPathOf(source, a.subject, a.version),
                                    pathB |-> CachedPathOf(source, b.subject, b.version)]]
    /\ UNCHANGED <<ttl, now, files, probes, resolution, calls, server>>

InitKey ==
    /\ ttl = 0
    /\ now = 0
    /\ files = << >>
    /\ last = Obs("none", Empty, "none", FALSE, "none")
    /\ probes = Idle
    /\ resolution = Idle
    /\ calls = Idle
    /\ server = Idle

NextKey ==
    \/ \E source \in KeySources, a \in KeyRequests, b \in KeyRequests :
           ComputeKeys(source, a, b)

SpecKey == InitKey /\ [][NextKey]_vars

----------------------------------------------------------------------------
(* The stored-record codec of GoFetcher *)

\* the varied string fields of the codec's records are at most this long
MaxFieldLen == 2

GoVersionInfo(version, releaseDate, releaseURL, content) ==
    [Version |-> version, ReleaseDate |-> releaseDate, ReleaseURL |-> releaseURL,
     Content |-> content]

\* the bytes GoFetcher.saveVersionInfoAsMarkdown writes
VersionMarkdown(info) ==
    <<Delim, NL>>
    \o Line("version", info.Version)
    \o Line("releaseURL", info.ReleaseURL)
    \o <<Delim, NL, NL>>
    \o info.Content

\* GoFetcher.saveVersionInfoAsMarkdown: on a failed MkdirAll nothing is written
saveVersionInfoAsMarkdown(fs, t, path, info, ok) ==
    IF ok THEN WriteFile(fs, path, VersionMarkdown(info), t) ELSE fs

\* the path FetchGoVersion looks up and cacheVersionInfo writes
GoVersionPath(version) == GetFilePath(<<"go", "versions", version \o <<".md">> >>)

\* GoFetcher.cacheVersionInfo
cacheVersionInfo(fs, t, info, ok) ==
    saveVersionInfoAsMarkdown(fs, t, GoVersionPath(info.Version), info, ok)

\* GoFetcher.loadVersionInfoFromMarkdown: [ok, info]; ok = FALSE is the error return
loadVersionInfoFromMarkdown(fs, t, ttlv, path) ==
    IF IsExpired(fs, t, ttlv, path) THEN [ok |-> FALSE, info |-> NoInfo]
    ELSE IF ~Exists(fs, path) THEN [ok |-> FALSE, info |-> NoInfo]
    ELSE LET parts == SplitN(fs[path].data, Delim, 3)
         IN  IF Len(parts) < 3 THEN [ok |-> FALSE, info |-> NoInfo]
             ELSE LET meta == YAMLUnmarshal(parts[2])
                  IN  IF ~meta.ok THEN [ok |-> FALSE, info |-> NoInfo]
                      ELSE [ok |-> TRUE,
                            info |-> GoVersionInfo(Field(meta.fields, "version"), Empty,
                                         Field(meta.fields, "releaseURL"),
                                         TrimSpace(parts[3]))]

\* the characters of the varied fields: a letter, the characters the codec treats
\* specially, and the delimiter
CodecTokens == {"k", Quote, BS, NL, Delim}

\* the values of a varied field
FieldValues == UNION {[1..n -> CodecTokens] : n \in 0..MaxFieldLen}

\* the values of the other fields
PlainValues == {Empty, Str("k")}

\* the library records that are saved and loaded
CodecLibraryInfos ==
    { LibraryInfo(Str("m"), v, syn, desc, repo, lic) :
          v \in PlainValues, syn \in FieldValues, desc \in FieldValues,
          repo \in {Empty, Str("k"), Str(Quote)}, lic \in PlainValues }

\* the version records that are saved and loaded
CodecVersionInfos ==
    { GoVersionInfo(Str("1"), date, url, content) :
          date \in PlainValues, url \in PlainValues, content \in FieldValues }

\* a library record is stored with cacheLibraryInfo and read back with
\* loadLibraryInfoFromMarkdown
RoundTripLibrary(info) ==
    LET path == GoCachedPath(info.ImportPath, info.Version)
        fs == cacheLibraryInfo(files, now, info, TRUE)
    IN  /\ last.op = "none"
        /\ files' = fs
        /\ last' = [Obs("RoundTripLibrary", path, "ok", FALSE, "none")
                      EXCEPT !.value = [record |-> info,
                                        loaded |-> loadLibraryInfoFromMarkdown(fs, now, ttl,
                                                                               path)]]
        /\ UNCHANGED <<ttl, now, probes, resolution, calls, server>>

\* a version record is stored with cacheVersionInfo and read back with
\* loadVersionInfoFromMarkdown
RoundTripVersion(info) ==
    LET path == GoVersionPath(info.Version)
        fs == cacheVersionInfo(files, now, info, TRUE)
    IN  /\ last.op = "none"
        /\ files' = fs
        /\ last' = [Obs("RoundTripVersion", path, "ok", FALSE, "none")
                      EXCEPT !.value = [record |-> info,
                                        loaded |-> loadVersionInfoFromMarkdown(fs, now, ttl,
                                                                               path)]]
        /\ UNCHANGED <<ttl, now, probes, resolution, calls, server>>

InitCodec ==
    /\ ttl = 0
    /\ now = 0
    /\ files = << >>
    /\ last = Obs("none", Empty, "none", FALSE, "none")
    /\ probes = Idle
    /\ resolution = Idle
    /\ calls = Idle
    /\ server = Idle

NextCodec ==
    \/ \E info \in CodecLibraryInfos : RoundTripLibrary(info)
    \/ \E info \in CodecVersionInfos : RoundTripVersion(info)

SpecCodec == InitCodec /\ [][NextCodec]_vars

----------------------------------------------------------------------------
(* Concurrent FetchPackageInfo calls on the HTTP server *)

\* net/http runs every handleMessage on a goroutine of its own; no lock is taken
\* around the tool call
Goroutines == {"g1", "g2"}

\* the request both goroutines serve
RaceName == Str("requests")
RaceVersion == Empty
RacePath == PyCachedPath(RaceName, RaceVersion)

\* what pypi.org does to the request of one goroutine
RaceOutcomes == {o \in PyOutcomes : o.kind = "ok" => o.saved}

\* a write of data at offset 0 into a file that holds old: a file longer than data
\* keeps its tail
Overlay(old, data) ==
    IF Len(old) > Len(data) THEN data \o SubSeq(old, Len(data) + 1, Len(old)) ELSE data

\* FetchPackageInfo up to the end of the cache lookup
CallLookup(g) ==
    /\ calls[g].pc = "start"
    /\ LET cached == loadPackageInfoFromMarkdown(files, now, ttl, RacePath)
       IN  calls' = [calls EXCEPT ![g] =
                        IF cached.ok
                        THEN [pc |-> "done", result |-> "hit", info |-> cached.info]
                        ELSE [pc |-> "fetch", result |-> "none", info |-> NoInfo]]
    /\ UNCHANGED <<ttl, now, files, last, probes, resolution, server>>

\* the request to pypi.org and the building of the record
CallRetrieve(g, net) ==
    /\ calls[g].pc = "fetch"
    /\ calls' = [calls EXCEPT ![g] =
                    IF net.kind # "ok"
                    THEN [pc |-> "done", result |-> "error", info |-> NoInfo]
                    ELSE [pc |-> "open", result |-> "none",
                          info |-> ExtractPackageInfo(net.info)]]
    /\ UNCHANGED <<ttl, now, files, last, probes, resolution, server>>

\* os.WriteFile, first half: OpenFile with O_WRONLY|O_CREATE|O_TRUNC empties the file
CallOpen(g) ==
    /\ calls[g].pc = "open"
    /\ files' = WriteFile(files, RacePath, Empty, now)
    /\ calls' = [calls EXCEPT ![g].pc = "write"]
    /\ UNCHANGED <<ttl, now, last, probes, resolution, server>>

\* os.WriteFile, second half: the record is written at offset 0 of the goroutine's own
\* descriptor; FetchPackageInfo then returns the record
CallWrite(g) ==
    /\ calls[g].pc = "write"
    /\ files' = WriteFile(files, RacePath,
                          Overlay(files[RacePath].data, PackageMarkdown(calls[g].info)), now)
    /\ calls' = [calls EXCEPT ![g].pc = "done", ![g].result = "fetched"]
    /\ UNCHANGED <<ttl, now, last, probes, resolution, server>>

InitRace ==
    /\ ttl \in TTLs
    /\ now = 0
    /\ files = << >>
    /\ last = Obs("none", Empty, "none", FALSE, "none")
    /\ probes = Idle
    /\ resolution = Idle
    /\ calls = [g \in Goroutines |-> [pc |-> "start", result |-> "none", info |-> NoInfo]]
    /\ server = Idle

NextRace ==
    \/ \E g \in Goroutines : CallLookup(g)
    \/ \E g \in Goroutines, net \in RaceOutcomes : CallRetrieve(g, net)
    \/ \E g \in Goroutines : CallOpen(g)
    \/ \E g \in Goroutines : CallWrite(g)

SpecRace == InitRace /\ [][NextRace]_vars

----------------------------------------------------------------------------
(* The stdio serving loop of MCPServer *)

\* the number of lines the model feeds to standard input
MaxLines == 2

\* the methods handleRequest switches on, and one it does not know
Methods ==
    {"initialize", "tools/list", "tools/call", "prompts/list", "prompts/get", "unknown_method"}

\* tools of handleToolCall's switch: one without arguments, one with a required
\* argument and a fetcher behind it, and a name the switch does not know
ToolNames == {"list_docs", "get_node_info", "unknown_tool"}

\* prompts/get knows one prompt
PromptNames == {"use-docs", "other-prompt"}

\* a line of standard input. shape: "garbage" is a line json.Unmarshal rejects (an
\* empty line included), "oversized" is a line longer than the scanner's buffer,
\* "request" decodes into a Request. params: whether Params decodes into the
\* handler's parameter struct. version: the "version" argument is absent (or not a
\* string), the empty string, or set.
RequestLine(method, params, name, version) ==
    [shape |-> "request", method |-> method, params |-> params, name |-> name, version |-> version]

GarbageLine == [RequestLine("", "invalid", "", "absent") EXCEPT !.shape = "garbage"]
OversizedLine == [RequestLine("", "invalid", "", "absent") EXCEPT !.shape = "oversized"]

Lines ==
    {GarbageLine, OversizedLine}
    \cup {RequestLine(m, "ok", "", "absent") : m \in Methods \ {"tools/call", "prompts/get"}}
    \cup {RequestLine(m, "invalid", "", "absent") : m \in {"tools/call", "prompts/get"}}
    \cup {RequestLine("tools/call", "ok", n, "absent") : n \in ToolNames}
    \cup {RequestLine("tools/call", "ok", "get_node_info", v) : v \in {"empty", "set"}}
    \cup {RequestLine("prompts/get", "ok", n, "absent") : n \in PromptNames}

\* what nodejs.org does to a fetch
FetchOutcomes == {"ok", "fail"}

\* Response.Result and Response.Error are nil unless a handler sets them
NilResult == [set |-> FALSE, kind |-> ""]
NilError == [set |-> FALSE, code |-> 0, message |-> Empty]

\* error messages are the format's text followed by its argument
ErrorResponse(code, message) ==
    [Result |-> NilResult, Error |-> [set |-> TRUE, code |-> code, message |-> message]]

ResultResponse(kind) ==
    [Result |-> [set |-> TRUE, kind |-> kind], Error |-> NilError]

\* a tool's return: (string, error)
ToolOK(text) == [err |-> FALSE, text |-> text, message |-> Empty]
ToolErr(message) == [err |-> TRUE, text |-> "", message |-> message]

\* getNodeInfo without its check of the version argument
getNodeInfoUnchecked(line, net) ==
    IF net = "fail"
    THEN ToolErr(<<"failed to fetch Node.js version info: ", "fetch error">>)
    ELSE ToolOK("node version info")

getNodeInfo(line, net) ==
    IF line.version \in {"absent", "empty"}
    THEN ToolErr(<<"version parameter is required">>)
    ELSE IF net = "fail"
         THEN ToolErr(<<"failed to fetch Node.js version info: ", "fetch error">>)
         ELSE ToolOK("node version info")

listDocs == ToolOK("documentations")

handleToolCall(line, net) ==
    IF line.params = "invalid"
    THEN ErrorResponse(-32602, <<"Invalid params: ", "unmarshal error">>)
    ELSE IF line.name \notin {"list_docs", "get_node_info"}
         THEN ErrorResponse(-32601, <<"Unknown tool", ": ", line.name>>)
         ELSE LET r == IF line.name = "list_docs" THEN listDocs ELSE getNodeInfo(line, net)
              IN  IF r.err THEN ErrorResponse(-32000, r.message) ELSE ResultResponse("content")

handlePromptsGet(line) ==
    IF line.params = "invalid"
    THEN ErrorResponse(-32602, <<"Invalid params: ", "unmarshal error">>)
    ELSE IF line.name # "use-docs"
         THEN ErrorResponse(-32602, <<"Unknown prompt: ", line.name>>)
         ELSE ResultResponse("messages")

handleRequest(line, net) ==
    CASE line.method = "initialize" -> ResultResponse("serverInfo")
      [] line.method = "tools/list" -> ResultResponse("tools")
      [] line.method = "tools/call" -> handleToolCall(line, net)
      [] line.method = "prompts/list" -> ResultResponse("prompts")
      [] line.method = "prompts/get" -> handlePromptsGet(line)
      [] OTHER -> ErrorResponse(-32601, <<"Method not found", ": ", line.method>>)

\* the members of the JSON object encoder.Encode writes: result and error are
\* tagged omitempty
Encode(resp) ==
    {"jsonrpc", "id"}
    \cup (IF resp.Result.set THEN {"result"} ELSE {})
    \cup (IF resp.Error.set THEN {"error"} ELSE {})

\* the loop before its first Scan
Serving == [running |-> TRUE, read |-> << >>, output |-> << >>, err |-> "none"]

\* one pass of the loop: scanner.Scan delivers a line, the line is decoded and
\* handled, and the response is written to standard output
ServeLine(line, net, writable) ==
    /\ server.running
    /\ Len(server.read) < MaxLines
    /\ LET n == Len(server.read) + 1
           seen == Append(server.read, [line |-> line, net |-> net, writable |-> writable])
           resp == handleRequest(line, net)
       IN  server' =
               CASE line.shape = "oversized" ->
                        [server EXCEPT !.running = FALSE, !.read = seen, !.err = "scan"]
                 [] line.shape = "garbage" ->
                        [server EXCEPT !.read = seen]
                 [] line.shape = "request" /\ ~writable ->
                        [server EXCEPT !.running = FALSE, !.read = seen, !.err = "encode"]
                 [] OTHER ->
                        [server EXCEPT !.read = seen,
                            !.output = Append(@, [line |-> n, resp |-> resp, members |-> Encode(resp)])]
    /\ UNCHANGED <<ttl, now, files, last, probes, resolution, calls>>

\* scanner.Scan reaches the end of standard input: Serve returns scanner.Err()
ServeEOF ==
    /\ server.running
    /\ server' = [server EXCEPT !.running = FALSE]
    /\ UNCHANGED <<ttl, now, files, last, probes, resolution, calls>>

InitServe ==
    /\ ttl = 0
    /\ now = 0
    /\ files = << >>
    /\ last = Obs("none", Empty, "none", FALSE, "none")
    /\ probes = Idle
    /\ resolution = Idle
    /\ calls = Idle
    /\ server = Serving

NextServe ==
    \/ \E line \in Lines, net \in FetchOutcomes, writable \in BOOLEAN : ServeLine(line, net, writable)
    \/ ServeEOF

SpecServe == InitServe /\ [][NextServe]_vars

----------------------------------------------------------------------------
(* The stdio serving loop: request ids and the order of the responses *)

\* the "id" member of a request line: absent, a string, or a number given by its
\* digits; the last number is 2^53 + 1
RequestIds ==
    {[kind |-> "absent", text |-> ""], [kind |-> "string", text |-> "a"],
     [kind |-> "number", text |-> "1"], [kind |-> "number", text |-> "2"],
     [kind |-> "number", text |-> "9007199254740993"]}

\* json.Unmarshal into Request.ID, an interface{}: an absent id stays nil, a string is
\* a string, a number becomes the nearest float64
UnmarshalID(id) ==
    IF id.kind = "number" /\ id.text = "9007199254740993"
    THEN [kind |-> "number", text |-> "9007199254740992"]
    ELSE id

\* encoder.Encode of Response.ID (omitempty): a nil id is left out, a float64 is
\* written with the digits that identify it
MarshalID(id) == id

\* the lines fed to the loop: one that does not parse and requests of three kinds
OrderLines ==
    {GarbageLine, RequestLine("initialize", "ok", "", "absent"),
     RequestLine("tools/call", "ok", "get_node_info", "set"),
     RequestLine("unknown_method", "ok", "", "absent")}

\* Serve before its first Scan
ServingInOrder == [pc |-> "scan", read |-> << >>, output |-> << >>]

\* scanner.Scan delivers the next line and json.Unmarshal decodes it; a line that
\* does not parse is logged and the loop continues with the next Scan
ScanLine(line, id) ==
    /\ server.pc = "scan"
    /\ Len(server.read) < MaxLines + 1
    /\ server' = [server EXCEPT !.read = Append(@, [line |-> line, id |-> id]),
                                 !.pc = IF line.shape = "garbage" THEN "scan" ELSE "handle"]
    /\ UNCHANGED <<ttl, now, files, last, probes, resolution, calls>>

\* handleRequest on the decoded request (every handler copies req.ID into the
\* response) and encoder.Encode of the response
WriteResponse(net) ==
    /\ server.pc = "handle"
    /\ LET n == Len(server.read)
           req == server.read[n]
       IN  server' = [server EXCEPT
                         !.output = Append(@, [answers |-> n,
                                               id |-> MarshalID(UnmarshalID(req.id)),
                                               resp |-> handleRequest(req.line, net)]),
                         !.pc = "scan"]
    /\ UNCHANGED <<ttl, now, files, last, probes, resolution, calls>>

\* scanner.Scan reaches the end of standard input
ServeEnd ==
    /\ server.pc = "scan"
    /\ server' = [server EXCEPT !.pc = "returned"]
    /\ UNCHANGED <<ttl, now, files, last, probes, resolution, calls>>

InitOrder ==
    /\ ttl = 0
    /\ now = 0
    /\ files = << >>
    /\ last = Obs("none", Empty, "none", FALSE, "none")
    /\ probes = Idle
    /\ resolution = Idle
    /\ calls = Idle
    /\ server = ServingInOrder

NextOrder ==
    \/ \E line \in OrderLines, id \in RequestIds : ScanLine(line, id)
    \/ \E net \in FetchOutcomes : WriteResponse(net)
    \/ ServeEnd

SpecOrder == InitOrder /\ [][NextOrder]_vars

----------------------------------------------------------------------------
(* HTTPServer: the clients map under connecting and disconnecting SSE clients *)

\* the connections that call GET /sse; net/http runs each handleSSE on a goroutine
Connections == {"c1", "c2"}

NotConnected == [pc |-> "idle", id |-> 0]

\* fmt.Sprintf("client-%d", time.Now().UnixNano()): the id is the reading of the clock
ClientID(t) == t

\* handleSSE up to the release of the lock: the client is created and stored under
\* its id, replacing whatever the map held there
Register(c) ==
    /\ calls[c].pc = "idle"
    /\ calls' = [calls EXCEPT ![c] = [pc |-> "serving", id |-> ClientID(now)]]
    /\ server' = [server EXCEPT !.clients =
                     [k \in DOMAIN @ \cup {ClientID(now)} |-> IF k = ClientID(now) THEN c ELSE @[k]]]
    /\ UNCHANGED <<ttl, now, files, last, probes, resolution>>

\* handleSSE returns (the request context is done, or a write failed): the deferred
\* function deletes the entry under the client's id
Unregister(c) ==
    /\ calls[c].pc = "serving"
    /\ calls' = [calls EXCEPT ![c] = NotConnected]
    /\ server' = [server EXCEPT !.clients = [k \in DOMAIN @ \ {calls[c].id} |-> @[k]]]
    /\ UNCHANGED <<ttl, now, files, last, probes, resolution>>

\* SendToClient up to its lookup of the client
SendToClient(clientID) ==
    /\ last' = [Obs("SendToClient", Empty,
                    IF clientID \in DOMAIN server.clients THEN "ok" ELSE "client not found",
                    FALSE, "none")
                  EXCEPT !.value = [clientID |-> clientID,
                                    connected |-> \E c \in Connections :
                                                     calls[c].pc = "serving" /\ calls[c].id = clientID]]
    /\ UNCHANGED <<ttl, now, files, probes, resolution, calls, server>>

InitSSE ==
    /\ ttl = 0
    /\ now = 0
    /\ files = << >>
    /\ last = Obs("none", Empty, "none", FALSE, "none")
    /\ probes = Idle
    /\ resolution = Idle
    /\ calls = [c \in Connections |-> NotConnected]
    /\ server = [clients |-> << >>]

NextSSE ==
    \/ Tick
    \/ \E c \in Connections : Register(c)
    \/ \E c \in Connections : Unregister(c)
    \/ \E clientID \in 0..MaxTime : SendToClient(ClientID(clientID))

SpecSSE == InitSSE /\ [][NextSSE]_vars

----------------------------------------------------------------------------
(* HTTPServer: SendToClient and BroadcastToAll against the clients lock and the
   clients' message buffers *)

\* make(chan []byte, 10): the slots of a client's message buffer
BufferSize == 10

Sender == "send"

Broadcaster == "broadcast"

Goroutine(pc, target, todo, waited, result) == [pc |-> pc, target |-> target, todo |-> todo, waited |-> waited, result |-> result]

NotStarted == Goroutine("idle", "none", {}, 0, "none")

\* the handlers that have called h.mu.Lock() and not got the lock yet; sync.RWMutex
\* lets no new reader in while a writer waits
PendingWriters == {c \in Connections : calls[c].pc \in {"lock", "leaving"}}

\* the goroutines between h.mu.RLock() and h.mu.RUnlock()
Readers == {p \in {Broadcaster} : calls[p].pc \in {"range", "select"}}

\* a select without the timer case
NeverTimedOut(blocked) == FALSE

\* case <-time.After(d): the timer fires on a send that is still blocked
TimedOut(blocked) == blocked

\* handleSSE creates the client with its empty buffer and calls h.mu.Lock()
SSEConnect(c) ==
    /\ calls[c].pc = "idle"
    /\ calls' = [calls EXCEPT ![c].pc = "lock"]
    /\ server' = [server EXCEPT !.messages[c] = 0]
    /\ UNCHANGED <<ttl, now, files, last, probes, resolution>>

\* handleSSE gets the lock, stores the client and unlocks
SSERegister(c) ==
    /\ calls[c].pc = "lock"
    /\ Readers = {}
    /\ calls' = [calls EXCEPT ![c].pc = "serving"]
    /\ server' = [server EXCEPT !.clients = @ \cup {c}]
    /\ UNCHANGED <<ttl, now, files, last, probes, resolution>>

\* the handler's loop takes a message from the buffer and writes it to the connection
SSEReceive(c) ==
    /\ calls[c].pc = "serving"
    /\ server.messages[c] > 0
    /\ server' = [server EXCEPT !.messages[c] = @ - 1]
    /\ UNCHANGED <<ttl, now, files, last, probes, resolution, calls>>

\* the handler returns (request context done, or a failed write): the deferred
\* function calls h.mu.Lock()
SSEReturn(c) ==
    /\ calls[c].pc = "serving"
    /\ calls' = [calls EXCEPT ![c].pc = "leaving"]
    /\ UNCHANGED <<ttl, now, files, last, probes, resolution, server>>

\* the deferred function gets the lock, deletes the entry, unlocks and closes done;
\* the messages channel is never closed
SSEUnregister(c) ==
    /\ calls[c].pc = "leaving"
    /\ Readers = {}
    /\ calls' = [calls EXCEPT ![c].pc = "exited"]
    /\ server' = [server EXCEPT !.clients = @ \ {c}]
    /\ UNCHANGED <<ttl, now, files, last, probes, resolution>>

\* SendToClient is called and reaches h.mu.RLock()
SendCall(clientID) ==
    /\ calls[Sender].pc = "idle"
    /\ calls' = [calls EXCEPT ![Sender] = Goroutine("rlock", clientID, {}, 0, "none")]
    /\ UNCHANGED <<ttl, now, files, last, probes, resolution, server>>

\* SendToClient gets the read lock, looks the client up and unlocks
SendLookup ==
    /\ calls[Sender].pc = "rlock"
    /\ PendingWriters = {}
    /\ calls' = [calls EXCEPT ![Sender] =
                    IF calls[Sender].target \in server.clients
                    THEN [@ EXCEPT !.pc = "select"]
                    ELSE [@ EXCEPT !.pc = "idle", !.result = "client not found"]]
    /\ UNCHANGED <<ttl, now, files, last, probes, resolution, server>>

\* select, case client.messages <- data
SendDeliver ==
    /\ calls[Sender].pc = "select"
    /\ server.messages[calls[Sender].target] < BufferSize
    /\ server' = [server EXCEPT !.messages[calls[Sender].target] = @ + 1]
    /\ calls' = [calls EXCEPT ![Sender].pc = "idle", ![Sender].result = "sent"]
    /\ UNCHANGED <<ttl, now, files, last, probes, resolution>>

\* select, case <-time.After(5 * time.Second)
SendTimeout ==
    /\ calls[Sender].pc = "select"
    /\ TimedOut(server.messages[calls[Sender].target] = BufferSize)
    /\ calls' = [calls EXCEPT ![Sender].pc = "idle", ![Sender].result = "timeout"]
    /\ UNCHANGED <<ttl, now, files, last, probes, resolution, server>>

\* BroadcastToAll is called and reaches h.mu.RLock()
BroadcastCall ==
    /\ calls[Broadcaster].pc = "idle"
    /\ calls' = [calls EXCEPT ![Broadcaster] = Goroutine("rlock", "none", {}, 0, "none")]
    /\ UNCHANGED <<ttl, now, files, last, probes, resolution, server>>

\* BroadcastToAll gets the read lock and starts to range over the map
BroadcastRLock ==
    /\ calls[Broadcaster].pc = "rlock"
    /\ PendingWriters = {}
    /\ calls' = [calls EXCEPT ![Broadcaster].pc = "range", ![Broadcaster].todo = server.clients]
    /\ UNCHANGED <<ttl, now, files, last, probes, resolution, server>>

\* the range reaches the next client, in the map's order
BroadcastNext(c) ==
    /\ calls[Broadcaster].pc = "range"
    /\ c \in calls[Broadcaster].todo
    /\ calls' = [calls EXCEPT ![Broadcaster].pc = "select", ![Broadcaster].target = c, ![Broadcaster].todo = @ \ {c}]
    /\ UNCHANGED <<ttl, now, files, last, probes, resolution, server>>

\* select, case client.messages <- data
BroadcastDeliver ==
    /\ calls[Broadcaster].pc = "select"
    /\ server.messages[calls[Broadcaster].target] < BufferSize
    /\ server' = [server EXCEPT !.messages[calls[Broadcaster].target] = @ + 1]
    /\ calls' = [calls EXCEPT ![Broadcaster].pc = "range"]
    /\ UNCHANGED <<ttl, now, files, last, probes, resolution>>

\* select, case <-time.After(1 * time.Second): a warning is logged
BroadcastTimeout ==
    /\ calls[Broadcaster].pc = "select"
    /\ TimedOut(server.messages[calls[Broadcaster].target] = BufferSize)
    /\ calls' = [calls EXCEPT ![Broadcaster].pc = "range", ![Broadcaster].waited = @ + 1]
    /\ UNCHANGED <<ttl, now, files, last, probes, resolution, server>>

\* the range is over: return nil, and the deferred h.mu.RUnlock()
BroadcastReturn ==
    /\ calls[Broadcaster].pc = "range"
    /\ calls[Broadcaster].todo = {}
    /\ calls' = [calls EXCEPT ![Broadcaster].pc = "idle", ![Broadcaster].result = "nil"]
    /\ UNCHANGED <<ttl, now, files, last, probes, resolution, server>>

InitSend ==
    /\ ttl = 0
    /\ now = 0
    /\ files = << >>
    /\ last = Obs("none", Empty, "none", FALSE, "none")
    /\ probes = Idle
    /\ resolution = Idle
    /\ calls = [p \in Connections \cup {Sender, Broadcaster} |-> NotStarted]
    /\ server = [clients |-> {}, messages |-> [c \in Connections |-> 0]]

NextSend ==
    \/ \E c \in Connections : SSEConnect(c)
    \/ \E c \in Connections : SSERegister(c)
    \/ \E c \in Connections : SSEReceive(c)
    \/ \E c \in Connections : SSEReturn(c)
    \/ \E c \in Connections : SSEUnregister(c)
    \/ \E clientID \in Connections : SendCall(clientID)
    \/ SendLookup
    \/ SendDeliver
    \/ SendTimeout
    \/ BroadcastCall
    \/ BroadcastRLock
    \/ \E c \in Connections : BroadcastNext(c)
    \/ BroadcastDeliver
    \/ BroadcastTimeout
    \/ BroadcastReturn

SpecSend == InitSend /\ [][NextSend]_vars

\* what the scheduling gives: a goroutine that can take the lock gets it (the locks
\* are held for bounded time and writers are served), a select whose send can go or
\* whose timer has fired proceeds, and a range that can go on goes on; nothing
\* makes a client connect, read its messages or disconnect, or a call start
FairSend ==
    /\ \A c \in Connections : WF_vars(SSERegister(c))
    /\ \A c \in Connections : WF_vars(SSEUnregister(c))
    /\ WF_vars(SendLookup)
    /\ WF_vars(SendDeliver \/ SendTimeout)
    /\ WF_vars(BroadcastRLock)
    /\ WF_vars(\E c \in Connections : BroadcastNext(c))
    /\ WF_vars(BroadcastDeliver \/ BroadcastTimeout)
    /\ WF_vars(BroadcastReturn)

SpecSendFair == SpecSend /\ FairSend

----------------------------------------------------------------------------
(* provider.Provider: scoring and Search *)

\* the longest title and query, and the most keywords of a topic
MaxTextLen == 2
MaxKeywords == 2

\* letters of the texts: one letter in both cases and one other letter
Chars == {"a", "A", "b"}

Texts == UNION {[1..n -> Chars] : n \in 0..MaxTextLen}
ShortTexts == UNION {[1..n -> Chars] : n \in 0..1}
KeywordTexts == {<<"a">>, <<"b">>, <<"A", "b">>}
KeywordLists == UNION {[1..n -> KeywordTexts] : n \in 0..MaxKeywords}

\* strings.ToLower
ToLower(s) == [i \in 1..Len(s) |-> IF s[i] = "A" THEN "a" ELSE s[i]]

\* strings.Contains(s, substr)
ContainsString(s, substr) ==
    \E i \in 0..Len(s) : i + Len(substr) <= Len(s) /\ SubSeq(s, i + 1, i + Len(substr)) = substr

Topic(id, title, description, content, keywords) ==
    [ID |-> id, Title |-> title, Description |-> description, Content |-> content, Keywords |-> keywords]

\* the keyword loop scoring 5 once, however many keywords match
keywordScoreFlat(query, keywords) ==
    IF \E k \in 1..Len(keywords) : ContainsString(ToLower(keywords[k]), query) THEN 5 ELSE 0

RECURSIVE keywordScore(_, _)
\* the loop over topic.Keywords
keywordScore(query, keywords) ==
    IF keywords = << >>
    THEN 0
    ELSE (IF ContainsString(ToLower(Head(keywords)), query) THEN 5 ELSE 0)
         + keywordScore(query, Tail(keywords))

calculateScore(query, topic) ==
    (IF ContainsString(ToLower(topic.Title), query) THEN 10 ELSE 0)
    + keywordScore(query, topic.Keywords)
    + (IF ContainsString(ToLower(topic.Description), query) THEN 3 ELSE 0)
    + (IF ContainsString(ToLower(topic.Content), query) THEN 1 ELSE 0)

\* Search scores one topic for a query
ScoreTopic ==
    /\ last.op = "none"
    /\ \E query \in Texts, title \in Texts, keywords \in KeywordLists :
          \E description \in ShortTexts, content \in ShortTexts :
             LET topic == Topic("t", title, description, content, keywords)
             IN  last' = [Obs("Score", Empty, "ok", FALSE, "none")
                            EXCEPT !.value = [query |-> query, topic |-> topic,
                                              score |-> calculateScore(ToLower(query), topic)]]
    /\ UNCHANGED <<ttl, now, files, probes, resolution, calls, server>>

InitScore ==
    /\ ttl = 0
    /\ now = 0
    /\ files = << >>
    /\ last = Obs("none", Empty, "none", FALSE, "none")
    /\ probes = Idle
    /\ resolution = Idle
    /\ calls = Idle
    /\ server = Idle

NextScore ==
    \/ ScoreTopic

SpecScore == InitScore /\ [][NextScore]_vars

\* the documentations a provider can hold, the keys of their Topics maps, and the
\* documentation filter of a search ("" searches all)
DocNames == {"go", "ts"}
TopicKeys == {"k1", "k2"}
DocFilters == {"", "go", "ts", "rust"}

\* topics scoring 10, 8, 1 and 0 for the query "a"
SearchTopics ==
    { Topic("x", <<"A">>, Empty, Empty, << >>),
      Topic("y", <<"b">>, <<"a">>, Empty, << <<"a">> >>),
      Topic("x", <<"b">>, Empty, <<"a">>, << >>),
      Topic("y", <<"b">>, Empty, Empty, << >>) }

SearchQueries == {Empty, <<"a">>, <<"A">>, <<"b">>}

\* p.documentations: the topics by documentation name and key
Providers == UNION {[slots -> SearchTopics] : slots \in SUBSET (DocNames \X TopicKeys)}

\* the orders in which the two range loops can visit the topics: documentation by
\* documentation, in any order of the documentations and of the topics of each
VisitOrders(p) ==
    LET slots == DOMAIN p
        n == Cardinality(slots)
    IN  {o \in [1..n -> slots] :
            /\ \A i, j \in 1..n : o[i] = o[j] => i = j
            /\ \A i, j, k \in 1..n : i < j /\ j < k /\ o[i][1] = o[k][1] => o[j][1] = o[i][1]}

SearchResult(topic, docName, score) ==
    [ID |-> topic.ID, Title |-> topic.Title, Description |-> topic.Description, Documentation |-> docName, Score |-> score]

\* the test that admits every topic whatever its score
admitsAll(score) == TRUE

\* the test a topic passes to become a result
admits(score) == score > 0

RECURSIVE collectUnfiltered(_, _, _, _)
\* the two range loops without the skip of the filtered documentations
collectUnfiltered(p, query, documentation, order) ==
    IF order = << >>
    THEN << >>
    ELSE LET topic == p[Head(order)]
             score == calculateScore(query, topic)
             rest == collectUnfiltered(p, query, documentation, Tail(order))
         IN  IF admits(score)
             THEN <<SearchResult(topic, Head(order)[1], score)>> \o rest
             ELSE rest

RECURSIVE collect(_, _, _, _)
\* the two range loops: the topics visited in order, the filtered documentations
\* skipped, a result appended for each topic that scores
collect(p, query, documentation, order) ==
    IF order = << >>
    THEN << >>
    ELSE LET docName == Head(order)[1]
             topic == p[Head(order)]
             score == calculateScore(query, topic)
             rest == collect(p, query, documentation, Tail(order))
         IN  IF documentation # "" /\ docName # documentation
             THEN rest
             ELSE IF admits(score)
                  THEN <<SearchResult(topic, docName, score)>> \o rest
                  ELSE rest

Swap(results, i, j) == [results EXCEPT ![i] = results[j], ![j] = results[i]]

\* the results left as they were collected
unsorted(results, i, j) == results

RECURSIVE bubbleSort(_, _, _)
\* the nested loops of the sort, at indexes i < j (counted from 1)
bubbleSort(results, i, j) ==
    IF i > Len(results)
    THEN results
    ELSE IF j > Len(results)
         THEN bubbleSort(results, i + 1, i + 2)
         ELSE bubbleSort(IF results[j].Score > results[i].Score THEN Swap(results, i, j) ELSE results,
                         i, j + 1)

Search(p, query, documentation, order) ==
    bubbleSort(collect(p, ToLower(query), documentation, order), 1, 2)

\* one call of Search on a provider
CallSearch ==
    /\ last.op = "none"
    /\ \E p \in Providers, query \in SearchQueries, documentation \in DocFilters :
          \E order \in VisitOrders(p) :
             last' = [Obs("Search", Empty, "ok", FALSE, "none")
                        EXCEPT !.value = [provider |-> p, query |-> query,
                                          documentation |-> documentation,
                                          results |-> Search(p, query, documentation, order)]]
    /\ UNCHANGED <<ttl, now, files, probes, resolution, calls, server>>

InitSearch ==
    /\ ttl = 0
    /\ now = 0
    /\ files = << >>
    /\ last = Obs("none", Empty, "none", FALSE, "none")
    /\ probes = Idle
    /\ resolution = Idle
    /\ calls = Idle
    /\ server = Idle

NextSearch ==
    \/ CallSearch

SpecSearch == InitSearch /\ [][NextSearch]_vars

\* topics told apart by their content, two of them with titles that differ in case only
DocTopics ==
    { Topic(<<"a">>, <<"A">>, Empty, <<"A", "b">>, << >>),
      Topic(<<"b">>, <<"b">>, Empty, <<"b">>, << >>),
      Topic(<<"b">>, <<"a">>, Empty, Empty, << >>) }

DocProviders == UNION {[slots -> DocTopics] : slots \in SUBSET (DocNames \X TopicKeys)}

\* the id and topic parameters of GetDoc: empty, naming something stored, naming nothing
DocIds == {"", "k1", "k2", "k3"}
DocTitles == {Empty, <<"a">>, <<"B">>, <<"b">>}

\* strings.EqualFold
EqualFold(s, t) == ToLower(s) = ToLower(t)

\* GetDoc's return: (string, error)
DocOK(content) == [err |-> FALSE, content |-> content, message |-> ""]
DocErr(message) == [err |-> TRUE, content |-> Empty, message |-> message]

\* GetDoc looking in every documentation, whatever doc names
GetDocUnscoped(p, id, doc, topic, order) ==
    LET ById(s) == s[2] = id
        ByTopic(s) == EqualFold(p[s].Title, topic) \/ EqualFold(p[s].ID, topic)
    IN  IF id # ""
        THEN IF SelectSeq(order, ById) # << >>
             THEN DocOK(p[Head(SelectSeq(order, ById))].Content)
             ELSE DocErr("documentation not found for id")
        ELSE IF topic # Empty
             THEN IF SelectSeq(order, ByTopic) # << >>
                  THEN DocOK(p[Head(SelectSeq(order, ByTopic))].Content)
                  ELSE DocErr("documentation not found for topic")
             ELSE DocErr("either id or topic must be provided")

\* the documentations are visited in order; the first topic found is returned
GetDoc(p, id, doc, topic, order) ==
    LET Searched(s) == doc = "" \/ s[1] = doc
        ById(s) == Searched(s) /\ s[2] = id
        ByTopic(s) == Searched(s) /\ (EqualFold(p[s].Title, topic) \/ EqualFold(p[s].ID, topic))
    IN  IF id # ""
        THEN IF SelectSeq(order, ById) # << >>
             THEN DocOK(p[Head(SelectSeq(order, ById))].Content)
             ELSE DocErr("documentation not found for id")
        ELSE IF topic # Empty
             THEN IF SelectSeq(order, ByTopic) # << >>
                  THEN DocOK(p[Head(SelectSeq(order, ByTopic))].Content)
                  ELSE DocErr("documentation not found for topic")
             ELSE DocErr("either id or topic must be provided")

\* one call of GetDoc on a provider
CallGetDoc ==
    /\ last.op = "none"
    /\ \E p \in DocProviders, id \in DocIds, doc \in DocFilters, topic \in DocTitles :
          \E order \in VisitOrders(p) :
             last' = [Obs("GetDoc", Empty, "ok", FALSE, "none")
                        EXCEPT !.value = [provider |-> p, id |-> id, doc |-> doc, topic |-> topic,
                                          result |-> GetDoc(p, id, doc, topic, order)]]
    /\ UNCHANGED <<ttl, now, files, probes, resolution, calls, server>>

InitDoc ==
    /\ ttl = 0
    /\ now = 0
    /\ files = << >>
    /\ last = Obs("none", Empty, "none", FALSE, "none")
    /\ probes = Idle
    /\ resolution = Idle
    /\ calls = Idle
    /\ server = Idle

NextDoc ==
    \/ CallGetDoc

SpecDoc == InitDoc /\ [][NextDoc]_vars

----------------------------------------------------------------------------
(* The corpus under Search, GetDoc and ListDocumentations calls *)

\* the corpora a provider can hold after startup: none, or two documentations
LoadedCorpora ==
    { << >>,
      (<<"go", "k1">> :> Topic(<<"a">>, <<"A">>, <<"d">>, <<"A", "b">>, << <<"a">> >>))
        @@ (<<"go", "k2">> :> Topic(<<"b">>, <<"b">>, Empty, <<"b">>, << >>))
        @@ (<<"ts", "k1">> :> Topic(<<"b">>, <<"a">>, Empty, <<"c">>, << >>)) }

\* the arguments the calls are made with
CorpusQueries == {<<"a">>, <<"b">>}
CorpusFilters == {"", "go"}
CorpusIds == {"", "k1", "k3"}
CorpusTitles == {Empty, <<"a">>}

\* the names of the documentations of a corpus
DocumentationsOf(p) == {s[1] : s \in DOMAIN p}

\* the orders in which a range loop can visit the documentations
DocOrders(p) ==
    LET names == DocumentationsOf(p)
        n == Cardinality(names)
    IN  {o \in [1..n -> names] : \A i, j \in 1..n : o[i] = o[j] => i = j}

\* the topic ListDocumentations puts into the copy and writes through the stored
\* pointer: a topic whose body is emptied in place
summaryInPlace(topic) == [Summary |-> [topic EXCEPT !.Content = Empty], Stored |-> [topic EXCEPT !.Content = Empty]]

\* the topic ListDocumentations puts into the copy, a new Topic without Content, and
\* the stored topic, which it only reads
summary(topic) == [Summary |-> [topic EXCEPT !.Content = Empty], Stored |-> topic]

\* one round of ListDocumentations' outer loop: the copy of documentation docName
\* and the corpus after the round
copyDocumentation(p, docName) ==
    LET keys == {s[2] : s \in {t \in DOMAIN p : t[1] = docName}}
    IN  [docCopy |-> [Name |-> docName, Topics |-> [k \in keys |-> summary(p[<<docName, k>>]).Summary]],
         documentations |-> [s \in DOMAIN p |-> IF s[1] = docName THEN summary(p[s]).Stored ELSE p[s]]]

\* the handlers run on goroutines of their own (HTTP transport): nothing is locked
NotCalling == [pc |-> "idle", order |-> << >>, listed |-> << >>]

\* Provider.Search on a goroutine
SearchCorpus(g) ==
    /\ calls[g].pc = "idle"
    /\ \E query \in CorpusQueries, documentation \in CorpusFilters :
          \E order \in VisitOrders(server.documentations) :
             last' = [Obs("Search", Empty, "ok", FALSE, "none")
                        EXCEPT !.value = Search(server.documentations, query, documentation, order)]
    /\ UNCHANGED <<ttl, now, files, probes, resolution, calls, server>>

\* Provider.GetDoc on a goroutine
GetDocCorpus(g) ==
    /\ calls[g].pc = "idle"
    /\ \E id \in CorpusIds, doc \in CorpusFilters, topic \in CorpusTitles :
          \E order \in VisitOrders(server.documentations) :
             last' = [Obs("GetDoc", Empty, "ok", FALSE, "none")
                        EXCEPT !.value = GetDoc(server.documentations, id, doc, topic, order)]
    /\ UNCHANGED <<ttl, now, files, probes, resolution, calls, server>>

\* Provider.ListDocumentations, entry: the range loop fixes its order
ListBegin(g) ==
    /\ calls[g].pc = "idle"
    /\ \E order \in DocOrders(server.documentations) :
          calls' = [calls EXCEPT ![g] = [pc |-> "list", order |-> order, listed |-> << >>]]
    /\ UNCHANGED <<ttl, now, files, last, probes, resolution, server>>

\* Provider.ListDocumentations, one round of the loop over the documentations
ListNext(g) ==
    /\ calls[g].pc = "list"
    /\ calls[g].order # << >>
    /\ LET round == copyDocumentation(server.documentations, Head(calls[g].order))
       IN  /\ calls' = [calls EXCEPT ![g].order = Tail(@), ![g].listed = Append(@, round.docCopy)]
           /\ server' = [server EXCEPT !.documentations = round.documentations]
    /\ UNCHANGED <<ttl, now, files, last, probes, resolution>>

\* Provider.ListDocumentations, return
ListReturn(g) ==
    /\ calls[g].pc = "list"
    /\ calls[g].order = << >>
    /\ last' = [Obs("ListDocumentations", Empty, "ok", FALSE, "none")
                  EXCEPT !.value = calls[g].listed]
    /\ calls' = [calls EXCEPT ![g] = NotCalling]
    /\ UNCHANGED <<ttl, now, files, probes, resolution, server>>

InitCorpus ==
    /\ ttl = 0
    /\ now = 0
    /\ files = << >>
    /\ last = Obs("none", Empty, "none", FALSE, "none")
    /\ probes = Idle
    /\ resolution = Idle
    /\ calls = [g \in Goroutines |-> NotCalling]
    /\ \E p \in LoadedCorpora : server = [loaded |-> p, documentations |-> p]

NextCorpus ==
    \/ \E g \in Goroutines : SearchCorpus(g)
    \/ \E g \in Goroutines : GetDocCorpus(g)
    \/ \E g \in Goroutines : ListBegin(g)
    \/ \E g \in Goroutines : ListNext(g)
    \/ \E g \in Goroutines : ListReturn(g)

SpecCorpus == InitCorpus /\ [][NextCorpus]_vars

----------------------------------------------------------------------------
(* provider.Provider: loading the corpus *)

\* the names os.ReadDir can return for the cache directory, in its (sorted) order
CorpusNames == << <<"g", "o">>, <<"r", "s">>, <<"t", "s">> >>

\* what a name of the cache directory is: nothing, a plain file, or a documentation
\* directory whose metadata.json is missing, does not parse, or parses, and whose
\* topics directory holds the named topic files (the file "bad" does not parse)
MetadataStates == {"missing", "malformed", "valid"}
TopicFileSets == {{}, {"intro"}, {"intro", "bad"}}
CorpusEntries ==
    {[kind |-> "absent", metadata |-> "missing", topics |-> {}],
     [kind |-> "file", metadata |-> "missing", topics |-> {}]}
    \cup [kind : {"dir"}, metadata : MetadataStates, topics : TopicFileSets]

\* strings.ToUpper on the first letter of the name
ToUpperFirst(name) == [i \in 1..Len(name) |-> IF i = 1 /\ name[i] = "g" THEN "G" ELSE IF i = 1 /\ name[i] = "r" THEN "R" ELSE IF i = 1 /\ name[i] = "t" THEN "T" ELSE name[i]]

\* the metadata generated for a directory without a readable metadata.json
DefaultMetadata(docName) ==
    [Name |-> docName, DisplayName |-> ToUpperFirst(docName), Description |-> <<"Documentation for ">> \o docName]

\* the metadata a metadata.json that parses holds
FileMetadata(docName) ==
    [Name |-> docName, DisplayName |-> <<"from metadata.json">>, Description |-> <<"from metadata.json">>]

\* the topics loaded from the topics directory: files that do not parse are skipped
LoadTopics(entry) == entry.topics \ {"bad"}

RECURSIVE loadFrom(_, _, _)
\* the loop over the directory entries from the i-th on, with the documentations
\* loaded so far: the first metadata.json that does not parse ends the load
loadFrom(corpus, i, docs) ==
    IF i > Len(corpus)
    THEN [err |-> FALSE, documentations |-> docs]
    ELSE IF corpus[i].kind # "dir"
         THEN loadFrom(corpus, i + 1, docs)
         ELSE IF corpus[i].metadata = "malformed"
              THEN [err |-> TRUE, documentations |-> docs]
              ELSE LET docName == CorpusNames[i]
                       meta == IF corpus[i].metadata = "valid"
                               THEN FileMetadata(docName)
                               ELSE DefaultMetadata(docName)
                       doc == [metadata |-> meta, Topics |-> LoadTopics(corpus[i])]
                   IN  loadFrom(corpus, i + 1, docs @@ (docName :> doc))

loadDocumentation(corpus) == loadFrom(corpus, 1, << >>)

\* NewProvider: the corpus is loaded; a failed load is reported as a warning and the
\* provider keeps what was loaded before the failure
NewProvider ==
    /\ last.op = "none"
    /\ \E corpus \in [1..Len(CorpusNames) -> CorpusEntries] :
          last' = [Obs("NewProvider", Empty, "ok", FALSE, "none")
                     EXCEPT !.value = [corpus |-> corpus, result |-> loadDocumentation(corpus)]]
    /\ UNCHANGED <<ttl, now, files, probes, resolution, calls, server>>

InitLoad ==
    /\ ttl = 0
    /\ now = 0
    /\ files = << >>
    /\ last = Obs("none", Empty, "none", FALSE, "none")
    /\ probes = Idle
    /\ resolution = Idle
    /\ calls = Idle
    /\ server = Idle

NextLoad ==
    \/ NewProvider

SpecLoad == InitLoad /\ [][NextLoad]_vars

----------------------------------------------------------------------------
(* The topics of one documentation directory *)

\* the "id" member of a topic in JSON: absent (the empty string after decoding) or given
TopicIds == {"", "a", "b"}

\* the keys of the "topics" member a metadata.json may carry
MetadataKeys == {"a", "b"}

\* the directory whose topics are loaded
TopicsDoc == "go"

\* json.Unmarshal into Documentation decodes a "topics" member of metadata.json into
\* the Topics map, each topic under the key the file gives it
MetadataTopics ==
    UNION {[keys -> {Topic(id, <<"from metadata.json">>, Empty, <<"m", id>>, << >>) : id \in TopicIds}] : keys \in SUBSET MetadataKeys}

\* the topic files of the topics directory that parse, in the order of os.ReadDir
TopicFiles ==
    {<< >>}
    \cup {<<Topic(id, <<"first">>, Empty, <<"f1", id>>, << >>)>> : id \in TopicIds}
    \cup {<<Topic(id1, <<"first">>, Empty, <<"f1", id1>>, << >>), Topic(id2, <<"second">>, Empty, <<"f2", id2>>, << >>)>> : id1 \in TopicIds, id2 \in TopicIds}

RECURSIVE loadTopicFiles(_, _, _)
\* the loop over the topic files: documentation.Topics[topic.ID] = &topic
loadTopicFiles(topicFiles, i, topics) ==
    IF i > Len(topicFiles) THEN topics
    ELSE loadTopicFiles(topicFiles, i + 1,
             [k \in DOMAIN topics \cup {topicFiles[i].ID} |->
                 IF k = topicFiles[i].ID THEN topicFiles[i] ELSE topics[k]])

\* the Topics map of a documentation after loadDocumentation: what metadata.json
\* decoded to (an empty map when it has no topics), then the topic files
loadTopics(metadataTopics, topicFiles) == loadTopicFiles(topicFiles, 1, metadataTopics)

\* the loading of one directory
LoadDirectory ==
    /\ last.op = "none"
    /\ \E metadataTopics \in MetadataTopics, topicFiles \in TopicFiles :
          last' = [Obs("loadDocumentation", Empty, "ok", FALSE, "none")
                     EXCEPT !.value = [metadata |-> metadataTopics, files |-> topicFiles,
                                       Topics |-> loadTopics(metadataTopics, topicFiles)]]
    /\ UNCHANGED <<ttl, now, files, probes, resolution, calls, server>>

InitTopics ==
    /\ ttl = 0
    /\ now = 0
    /\ files = << >>
    /\ last = Obs("none", Empty, "none", FALSE, "none")
    /\ probes = Idle
    /\ resolution = Idle
    /\ calls = Idle
    /\ server = Idle

NextTopics ==
    \/ LoadDirectory

SpecTopics == InitTopics /\ [][NextTopics]_vars

----------------------------------------------------------------------------
(* config: ParseDuration *)

\* the longest cache_ttl text enumerated in full
MaxTTLLen == 3

\* a time.Duration is an int64 of nanoseconds; the model counts minutes, and this is
\* the greatest whole number of minutes an int64 of nanoseconds holds
MaxInt64Minutes == 153722867

DurationDigits == {"0", "1", "2", "3", "4", "7"}
DurationChars == DurationDigits \cup {"d", "w", "h", "m", "-", "x", SP}

\* texts at the edge of the int64 range: the last number of days and of weeks that
\* fits, and the first that does not
LongTTLs ==
    { <<"1", "0", "6", "7", "5", "1", "d">>, <<"1", "0", "6", "7", "5", "2", "d">>,
      <<"1", "5", "2", "5", "0", "w">>, <<"1", "5", "2", "5", "1", "w">> }

TTLTexts == UNION {[1..n -> DurationChars] : n \in 0..MaxTTLLen} \cup LongTTLs

IsDigit(tok) == tok \in {"0", "1", "2", "3", "4", "5", "6", "7", "8", "9"}

DigitValue(tok) ==
    CASE tok = "0" -> 0 [] tok = "1" -> 1 [] tok = "2" -> 2 [] tok = "3" -> 3 [] tok = "4" -> 4
      [] tok = "5" -> 5 [] tok = "6" -> 6 [] tok = "7" -> 7 [] tok = "8" -> 8 [] tok = "9" -> 9

RECURSIVE Atoi(_)
\* strconv.Atoi of a text of digits
Atoi(s) == IF s = << >> THEN 0 ELSE 10 * Atoi(SubSeq(s, 1, Len(s) - 1)) + DigitValue(s[Len(s)])

RECURSIVE LeadingDigits(_)
\* the number of digits the text starts with
LeadingDigits(s) == IF s # << >> /\ IsDigit(Head(s)) THEN 1 + LeadingDigits(Tail(s)) ELSE 0

DurationOK(minutes) == [err |-> FALSE, d |-> minutes]
DurationErr == [err |-> TRUE, d |-> 0]

\* a product of int64 values: beyond the int64 range the multiplication wraps, and the
\* result is no longer the product (-1 stands for the wrapped value, which is negative
\* for the first texts that overflow)
Int64(minutes) == IF minutes <= MaxInt64Minutes THEN minutes ELSE -1

\* the minutes of one unit of the pattern
UnitMinutes(unit) ==
    CASE unit = "w" -> 7 * 24 * 60 [] unit = "d" -> 24 * 60 [] unit = "h" -> 60 [] unit = "m" -> 1

RECURSIVE StdGroups(_, _)
\* time.ParseDuration after the sign: one or more groups of digits and a unit (h, m)
StdGroups(s, acc) ==
    IF s = << >>
    THEN DurationOK(acc)
    ELSE LET k == LeadingDigits(s)
         IN  IF k = 0 \/ k = Len(s) \/ s[k + 1] \notin {"h", "m"}
             THEN DurationErr
             ELSE StdGroups(SubSeq(s, k + 2, Len(s)),
                            acc + Atoi(SubSeq(s, 1, k)) * UnitMinutes(s[k + 1]))

\* time.ParseDuration
StdParseDuration(s) ==
    LET neg == s # << >> /\ Head(s) = "-"
        body == IF neg THEN Tail(s) ELSE s
        g == StdGroups(body, 0)
    IN  IF body = <<"0">> THEN DurationOK(0)
        ELSE IF body = << >> \/ g.err THEN DurationErr
        ELSE DurationOK(IF neg THEN 0 - g.d ELSE g.d)

\* the pattern ^(\d+)([dhmsw])$
MatchesPattern(s) ==
    Len(s) >= 2 /\ LeadingDigits(s) = Len(s) - 1 /\ s[Len(s)] \in {"d", "h", "m", "w"}

ParseDuration(text) ==
    LET s == TrimSpace(text)
    IN  IF s = << >> \/ s = <<"0">> THEN DurationOK(0)
        ELSE IF ~MatchesPattern(s) THEN StdParseDuration(s)
        ELSE DurationOK(Int64(Atoi(SubSeq(s, 1, Len(s) - 1)) * UnitMinutes(s[Len(s)])))

\* one cache_ttl text is parsed
CallParseDuration ==
    /\ last.op = "none"
    /\ \E text \in TTLTexts :
          last' = [Obs("ParseDuration", Empty, "ok", FALSE, "none")
                     EXCEPT !.value = [text |-> text, result |-> ParseDuration(text)]]
    /\ UNCHANGED <<ttl, now, files, probes, resolution, calls, server>>

InitDuration ==
    /\ ttl = 0
    /\ now = 0
    /\ files = << >>
    /\ last = Obs("none", Empty, "none", FALSE, "none")
    /\ probes = Idle
    /\ resolution = Idle
    /\ calls = Idle
    /\ server = Idle

NextDuration ==
    \/ CallParseDuration

SpecDuration == InitDuration /\ [][NextDuration]_vars

----------------------------------------------------------------------------
(* Startup: config.Load and the fetchers' constructors *)

\* the fetchers NewMCPServer constructs, in the order of the struct literal
FetcherNames ==
    <<"go", "npm", "node", "typescript", "nextjs", "react", "ansible", "terraform", "jenkins", "kubernetes", "helm">>

\* config.yaml: cannot be read, holds no cache_ttl, or holds a cache_ttl text
ConfigFiles ==
    {[kind |-> "unreadable", text |-> Empty], [kind |-> "nokey", text |-> Empty]}
    \cup [kind : {"cache_ttl"}, text : TTLTexts]

\* a *Config: nil, or a configuration with its cache TTL in minutes
NilConfig == [nil |-> TRUE, CacheTTL |-> 0]
ConfigOf(minutes) == [nil |-> FALSE, CacheTTL |-> minutes]

\* loadConfig: the default of 7 days unless the file sets cache_ttl; a cache_ttl that
\* ParseDuration rejects fails yaml.Unmarshal, and loadConfig returns (nil, error)
loadConfig(file) ==
    IF file.kind # "cache_ttl"
    THEN [cfg |-> ConfigOf(7 * 24 * 60), err |-> FALSE]
    ELSE IF ParseDuration(file.text).err
         THEN [cfg |-> NilConfig, err |-> TRUE]
         ELSE [cfg |-> ConfigOf(ParseDuration(file.text).d), err |-> FALSE]

\* config.Load: loadConfig runs in the first call only (sync.Once); err is a variable
\* of the call, so a later call returns the stored configuration and a nil error
Load(s) ==
    IF s.once
    THEN [cfg |-> s.globalConfig, err |-> FALSE]
    ELSE loadConfig(s.file)

\* the process before NewMCPServer constructs its first fetcher
Starting(file) ==
    [file |-> file, once |-> FALSE, globalConfig |-> NilConfig, fetchers |-> << >>, panicked |-> FALSE]

\* the constructor of the next fetcher: Load, the fallback to a TTL of 0 on error, and
\* cache.NewManager with cfg.CacheTTL; the dereference of a nil cfg panics
NewFetcher ==
    /\ ~server.panicked
    /\ Len(server.fetchers) < Len(FetcherNames)
    /\ LET loaded == Load(server)
           cfg == IF loaded.err THEN ConfigOf(0) ELSE loaded.cfg
       IN  server' = [server EXCEPT
                         !.once = TRUE,
                         !.globalConfig = IF server.once THEN @ ELSE loaded.cfg,
                         !.panicked = cfg.nil,
                         !.fetchers = IF cfg.nil THEN @ ELSE Append(@, cfg.CacheTTL)]
    /\ UNCHANGED <<ttl, now, files, last, probes, resolution, calls>>

InitStartup ==
    /\ ttl = 0
    /\ now = 0
    /\ files = << >>
    /\ last = Obs("none", Empty, "none", FALSE, "none")
    /\ probes = Idle
    /\ resolution = Idle
    /\ calls = Idle
    /\ \E file \in ConfigFiles : server = Starting(file)

NextStartup ==
    \/ NewFetcher

SpecStartup == InitStartup /\ [][NextStartup]_vars

----------------------------------------------------------------------------
(* The --clear-cache command *)

\* config.GetCacheDir: the root of `files`
CacheDir == Empty

\* the command reporting success without removing anything
clearCacheKeeping ==
    /\ files' = files
    /\ last' = [Obs("clearCache", CacheDir, "ok", FALSE, "none")
                  EXCEPT !.value = Cardinality(DOMAIN files)]
    /\ UNCHANGED <<ttl, now, probes, resolution, calls, server>>

\* main's clearCache: the cache directory (created by GetCacheDir when it is missing)
\* is removed with everything in it; the observation counts the files it held
clearCache ==
    /\ files' = RemoveAll(files, CacheDir)
    /\ last' = [Obs("clearCache", CacheDir, "ok", FALSE, "none")
                  EXCEPT !.value = Cardinality(DOMAIN files)]
    /\ UNCHANGED <<ttl, now, probes, resolution, calls, server>>

InitClear ==
    /\ ttl \in TTLs
    /\ now = 0
    /\ files = << >>
    /\ last = Obs("none", Empty, "none", FALSE, "none")
    /\ probes = Idle
    /\ resolution = Idle
    /\ calls = Idle
    /\ server = Idle

NextClear ==
    \/ Tick
    \/ \E n \in PyNames, v \in PyVersions, net \in PyOutcomes : FetchPackageInfo(n, v, net)
    \/ clearCache

SpecClear == InitClear /\ [][NextClear]_vars

----------------------------------------------------------------------------
(* Fetchers that build a record from several requests *)

\* what one request to a source can do: succeed, or fail (in transport or by status)
RequestOutcomes == {"ok", "fail"}

\* DockerImageFetcher.buildImageContent: the title, the digest, the usage section
\* (one line of it) and the recent tags, which are listed only when there are any
buildImageContent(info) ==
    <<"# Docker Image: ">> \o info.FullImage \o <<NL, NL>>
    \o <<"**Tag:** ">> \o info.Tag \o <<NL, NL>>
    \o (IF info.Digest # Empty THEN <<"**Digest:** ">> \o info.Digest \o <<NL, NL>> ELSE Empty)
    \o <<"## Usage", NL, NL, "docker pull ">> \o info.FullImage \o <<NL, NL>>
    \o (IF info.Tags # Empty THEN <<"## Recent Tags", NL, NL>> \o info.Tags \o <<NL>> ELSE Empty)
    \o <<"## Documentation", NL>>

\* the bytes saveImageInfoAsMarkdown writes
ImageMarkdown(info) ==
    <<Delim, NL>>
    \o Line("image", info.Image)
    \o Line("tag", info.Tag)
    \o OptLine("digest", info.Digest, info.Digest)
    \o OptLine("lastUpdated", info.LastUpdated, info.LastUpdated)
    \o Line("fullImage", info.FullImage)
    \o <<Delim, NL, NL>>
    \o info.Content

\* loadImageInfoFromMarkdown: a file that is there, not expired and parses
imageCached(fs, t, ttlv, path) ==
    /\ ~IsExpired(fs, t, ttlv, path)
    /\ Exists(fs, path)
    /\ Len(SplitN(fs[path].data, Delim, 3)) = 3
    /\ YAMLUnmarshal(SplitN(fs[path].data, Delim, 3)[2]).ok

\* DockerImageFetcher.FetchDockerImage: the tag request, then the request for the
\* list of tags, whose failure is a warning; the record is built and saved
FetchDockerImage(image, tag, tagNet, tagsNet, saved) ==
    LET cachedPath == DockerCachedPath(image, tag)
        fullImage == image \o <<":">> \o tag
        tags == IF tagsNet = "ok" THEN <<"- latest", NL, "- 1.27", NL>> ELSE Empty
        built == [Image |-> image, Tag |-> tag, Digest |-> <<"sha256:abc">>,
                  LastUpdated |-> <<"2024-01-01">>, FullImage |-> fullImage, Tags |-> tags]
        imageInfo == [built EXCEPT !.Tags = tags] @@ [Content |-> buildImageContent(built)]
        stale == Exists(files, cachedPath) /\ IsExpired(files, now, ttl, cachedPath)
        cold == ~Exists(files, cachedPath)
    IN  /\ UNCHANGED <<ttl, now, probes, resolution, calls, server>>
        /\ IF imageCached(files, now, ttl, cachedPath)
           THEN /\ files' = files
                /\ last' = FetchObs("FetchDockerImage", cachedPath, image, tag, "hit", stale,
                                    NoInfo, TrimSpace(SplitN(files[cachedPath].data, Delim, 3)[3]),
                                    0, 0, FALSE, FALSE, cold)
           ELSE IF tagNet # "ok"
           THEN /\ files' = files
                /\ last' = FetchObs("FetchDockerImage", cachedPath, image, tag, "error", stale,
                                    NoInfo, Empty, 1, 1, TRUE, FALSE, cold)
           ELSE /\ files' = IF saved THEN WriteFile(files, cachedPath, ImageMarkdown(imageInfo), now)
                                     ELSE files
                /\ last' = FetchObs("FetchDockerImage", cachedPath, image, tag, "fetched", stale,
                                    NoInfo, imageInfo.Content, 1, 2, tagsNet # "ok", saved, cold)

\* the path FetchActionInfo looks up and writes
ActionCachedPath(repository, version) ==
    LET safe == ReplaceAll(repository, "/", "_")
        safeName == IF version # Empty THEN safe \o <<"_">> \o version ELSE safe
    IN  GetFilePath(<<"github-actions", "actions", safeName \o <<".md">> >>)

\* GitHubActionsFetcher.buildActionContent: the lines that depend on the requests
buildActionContent(info) ==
    <<"# ">> \o info.Name \o <<NL, NL>>
    \o (IF info.Description # Empty
        THEN <<"**Description:** ">> \o info.Description \o <<NL, NL>> ELSE Empty)
    \o <<"**Repository:** ">> \o info.Repository \o <<NL, NL>>
    \o <<"**Version:** ">> \o info.Version \o <<NL, NL>>

\* the bytes saveActionInfoAsMarkdown writes (the repositories of the model have no
\* stars, license, owner or homepage, so those lines are not written)
ActionMarkdown(info) ==
    <<Delim, NL>>
    \o Line("repository", info.Repository)
    \o Line("name", escapeYAMLString(info.Name))
    \o OptLine("description", info.Description, escapeYAMLString(info.Description))
    \o OptLine("version", info.Version, info.Version)
    \o <<Delim, NL, NL>>
    \o info.Content

\* GitHubActionsFetcher.FetchActionInfo: the repository request, whose failure is the
\* error return; then action.yml / action.yaml and, without a version, the latest
\* release, whose failures leave the repository's name and the version "latest"
FetchActionInfo(repository, version, repoNet, ymlNet, releaseNet, saved) ==
    LET cachedPath == ActionCachedPath(repository, version)
        fromYml == ymlNet = "ok"
        askRelease == version = Empty
        built == [Repository |-> repository,
                  Name |-> IF fromYml THEN <<"Checkout">> ELSE <<"checkout">>,
                  Description |-> IF fromYml THEN <<"Checks out a repository">> ELSE Empty,
                  Version |-> IF ~askRelease THEN version
                              ELSE IF releaseNet = "ok" THEN <<"v4.2.2">> ELSE <<"latest">>]
        actionInfo == built @@ [Content |-> buildActionContent(built)]
        failed == ymlNet # "ok" \/ (askRelease /\ releaseNet # "ok")
        stale == Exists(files, cachedPath) /\ IsExpired(files, now, ttl, cachedPath)
        cold == ~Exists(files, cachedPath)
    IN  /\ UNCHANGED <<ttl, now, probes, resolution, calls, server>>
        /\ IF imageCached(files, now, ttl, cachedPath)
           THEN /\ files' = files
                /\ last' = FetchObs("FetchActionInfo", cachedPath, repository, version, "hit",
                                    stale, NoInfo,
                                    TrimSpace(SplitN(files[cachedPath].data, Delim, 3)[3]),
                                    0, 0, FALSE, FALSE, cold)
           ELSE IF repoNet # "ok"
           THEN /\ files' = files
                /\ last' = FetchObs("FetchActionInfo", cachedPath, repository, version, "error",
                                    stale, NoInfo, Empty, 1, 1, TRUE, FALSE, cold)
           ELSE /\ files' = IF saved THEN WriteFile(files, cachedPath, ActionMarkdown(actionInfo), now)
                                     ELSE files
                /\ last' = FetchObs("FetchActionInfo", cachedPath, repository, version, "fetched",
                                    stale, NoInfo, actionInfo.Content, 1,
                                    IF askRelease THEN 3 ELSE 2, failed, saved, cold)

PartialImage == Str("nginx")
PartialTag == Str("latest")
PartialRepository == <<"actions", "/", "checkout">>
PartialVersions == {Empty}

InitPartial ==
    /\ ttl \in TTLs
    /\ now = 0
    /\ files = << >>
    /\ last = Obs("none", Empty, "none", FALSE, "none")
    /\ probes = Idle
    /\ resolution = Idle
    /\ calls = Idle
    /\ server = Idle

NextPartial ==
    \/ Tick
    \/ \E tagNet \in RequestOutcomes, tagsNet \in RequestOutcomes, saved \in BOOLEAN :
          FetchDockerImage(PartialImage, PartialTag, tagNet, tagsNet, saved)
    \/ \E version \in PartialVersions, repoNet \in RequestOutcomes, ymlNet \in RequestOutcomes :
          \E releaseNet \in RequestOutcomes, saved \in BOOLEAN :
             FetchActionInfo(PartialRepository, version, repoNet, ymlNet, releaseNet, saved)

SpecPartial == InitPartial /\ [][NextPartial]_vars

----------------------------------------------------------------------------
(* A lookup while a save to the same file is under way *)

\* os.WriteFile is OpenFile(O_WRONLY|O_CREATE|O_TRUNC) followed by Write, with no lock,
\* no temporary file and no rename: between the two, and while Write copies the bytes
\* into the file, a reader of the same path sees the file empty or holding a prefix of
\* the data. The prefix grows here one token at a time.

\* the file Manager.Save writes and Manager.Load reads
TornJSONPath == <<"c", Str("k1")>>

\* the data a save writes: Manager.Save writes the JSON of a value,
\* savePackageInfoAsMarkdown the markdown of a record
SaveData ==
    [path : {TornJSONPath}, data : {JSONMarshal(v) : v \in JSONValues}]
    \cup [path : {RacePath}, data : {PackageMarkdown(ExtractPackageInfo(i)) : i \in PyPIInfos}]

NotSaving == [pc |-> "idle", path |-> Empty, data |-> Empty]

\* the record a lookup returns from a file holding data, [ok, info]
RecordOf(path, data) == loadPackageInfoFromMarkdown(WriteFile(<< >>, path, data, now), now, ttl, path)

\* the value Manager.Load returns from a file holding data, [outcome, v]
ValueOf(path, data) == LoadResult(WriteFile(<< >>, path, data, now), now, ttl, path)

\* what a lookup returns from the files a save has written completely
CompleteValues == {ValueOf(save.path, save.data).v : save \in {d \in SaveData : d.path = TornJSONPath}}
CompleteRecords == {RecordOf(save.path, save.data).info : save \in {d \in SaveData : d.path = RacePath}}

\* Manager.Save / savePackageInfoAsMarkdown up to the end of OpenFile: the file exists
\* and is empty
SaveOpen(save) ==
    /\ calls.pc = "idle"
    /\ files' = WriteFile(files, save.path, Empty, now)
    /\ calls' = [pc |-> "write", path |-> save.path, data |-> save.data]
    /\ UNCHANGED <<ttl, now, last, probes, resolution, server>>

\* Write: the next part of the data reaches the file; after the last part os.WriteFile
\* returns
SaveWrite ==
    /\ calls.pc = "write"
    /\ LET written == Len(files[calls.path].data) + 1
       IN  /\ files' = WriteFile(files, calls.path, SubSeq(calls.data, 1, written), now)
           /\ calls' = IF written = Len(calls.data) THEN [calls EXCEPT !.pc = "idle"] ELSE calls
    /\ UNCHANGED <<ttl, now, last, probes, resolution, server>>

\* the file is being written and does not hold all of the data yet
PartlyWritten(path) ==
    /\ calls.pc = "write"
    /\ calls.path = path
    /\ Exists(files, path)
    /\ files[path].data # calls.data

\* Manager.Load of the JSON file, on another goroutine
LookupJSON ==
    /\ Exists(files, TornJSONPath)
    /\ LET loaded == LoadResult(files, now, ttl, TornJSONPath)
       IN  last' = Obs("Load", TornJSONPath, loaded.outcome, FALSE,
                       [partial |-> PartlyWritten(TornJSONPath),
                        same |-> loaded.v \in CompleteValues])
    /\ files' = LoadFiles(files, now, ttl, TornJSONPath)
    /\ UNCHANGED <<ttl, now, probes, resolution, calls, server>>

\* loadPackageInfoFromMarkdown of the markdown file, on another goroutine
LookupMarkdown ==
    /\ Exists(files, RacePath)
    /\ LET loaded == loadPackageInfoFromMarkdown(files, now, ttl, RacePath)
       IN  last' = Obs("loadPackageInfoFromMarkdown", RacePath,
                       IF loaded.ok THEN "hit" ELSE "miss", FALSE,
                       [partial |-> PartlyWritten(RacePath),
                        same |-> loaded.info \in CompleteRecords])
    /\ UNCHANGED <<ttl, now, files, probes, resolution, calls, server>>

InitTorn ==
    /\ ttl = TTLPos
    /\ now = 0
    /\ files = << >>
    /\ last = Obs("none", Empty, "none", FALSE, [partial |-> FALSE, same |-> FALSE])
    /\ probes = Idle
    /\ resolution = Idle
    /\ calls = NotSaving
    /\ server = Idle

NextTorn ==
    \/ \E save \in SaveData : SaveOpen(save)
    \/ SaveWrite
    \/ LookupJSON
    \/ LookupMarkdown

SpecTorn == InitTorn /\ [][NextTorn]_vars

----------------------------------------------------------------------------
(* A request whose cache write fails *)

\* the file system after an os.WriteFile that returns an error: MkdirAll or OpenFile
\* failed and the file is as it was (cut < 0), or the file was opened, which empties
\* it, and Write failed after cut parts of the data (a full disk); os.WriteFile does
\* not remove the file
FailedWriteFile(fs, path, data, cut, t) ==
    IF cut < 0 THEN fs ELSE WriteFile(fs, path, SubSeq(data, 1, cut), t)

\* the request whose write fails
WriteFailName == Str("requests")
WriteFailVersion == Empty

\* what pypi.org does to the other requests: it fails them, or answers them and the
\* record is written
WriteFailOutcomes == {o \in PyOutcomes : o.kind = "transport" \/ (o.kind = "ok" /\ o.saved)}

\* PythonFetcher.FetchPackageInfo on a miss, with a retrieval that succeeds and a
\* savePackageInfoAsMarkdown that returns an error: a warning is printed and the
\* record is returned
FetchPackageInfoSaveFails(packageName, version) ==
    LET cachedPath == PyCachedPath(packageName, version)
        cached == loadPackageInfoFromMarkdown(files, now, ttl, cachedPath)
        stale == Exists(files, cachedPath) /\ IsExpired(files, now, ttl, cachedPath)
        cold == ~Exists(files, cachedPath)
    IN  /\ ~cached.ok
        /\ \E info \in PyPIInfos :
              LET pkgInfo == ExtractPackageInfo(info)
                  data == PackageMarkdown(pkgInfo)
              IN  \E cut \in -1..(Len(data) - 1) :
                     /\ files' = FailedWriteFile(files, cachedPath, data, cut, now)
                     /\ last' = FetchObs("FetchPackageInfo", cachedPath, packageName, version,
                                         "fetched", stale, pkgInfo, pkgInfo.Content, 1, 1, FALSE,
                                         FALSE, cold)
        /\ UNCHANGED <<ttl, now, probes, resolution, calls, server>>

InitWriteFail ==
    /\ ttl \in TTLs
    /\ now = 0
    /\ files = << >>
    /\ last = Obs("none", Empty, "none", FALSE, "none")
    /\ probes = Idle
    /\ resolution = Idle
    /\ calls = Idle
    /\ server = Idle

NextWriteFail ==
    \/ FetchPackageInfoSaveFails(WriteFailName, WriteFailVersion)
    \/ \E net \in WriteFailOutcomes : FetchPackageInfo(WriteFailName, WriteFailVersion, net)

SpecWriteFail == InitWriteFail /\ [][NextWriteFail]_vars

----------------------------------------------------------------------------
(* HelmFetcher and NodeFetcher: versions with and without the leading "v" *)

\* the two spellings of one release
ReleaseVersions == {Str("3.13.0"), <<"v", "3.13.0">>}

\* the version with the 'v' prefix added if missing
WithV(version) == IF HasPrefix(version, "v") THEN version ELSE <<"v">> \o version

HelmVersionInfo(version, releaseDate, releaseURL, content) ==
    [Version |-> version, ReleaseDate |-> releaseDate, ReleaseURL |-> releaseURL,
     Content |-> content]

NodeVersionInfo(version, releaseDate, lts, content) ==
    [Version |-> version, ReleaseDate |-> releaseDate, LTS |-> lts, Content |-> content]

\* the file FetchHelmVersion looks up and writes: named after the version as requested
HelmCachedPath(version) == GetFilePath(<<"helm", "versions", version \o <<".md">> >>)

\* the file FetchNodeVersion looks up and writes: named after the normalized version
NodeCachedPath(version) == GetFilePath(<<"node", "versions", WithV(version) \o <<".md">> >>)

\* the bytes HelmFetcher.saveVersionInfoAsMarkdown writes
HelmMarkdown(info) ==
    <<Delim, NL>>
    \o Line("version", info.Version)
    \o OptLine("releaseDate", info.ReleaseDate, info.ReleaseDate)
    \o OptLine("releaseURL", info.ReleaseURL, info.ReleaseURL)
    \o <<Delim, NL, NL>>
    \o info.Content

\* the bytes NodeFetcher.saveVersionInfoAsMarkdown writes
NodeMarkdown(info) ==
    <<Delim, NL>>
    \o Line("version", info.Version)
    \o OptLine("releaseDate", info.ReleaseDate, info.ReleaseDate)
    \o OptLine("lts", info.LTS, info.LTS)
    \o <<Delim, NL, NL>>
    \o info.Content

\* HelmFetcher.loadVersionInfoFromMarkdown: [ok, info]
loadHelmVersionInfo(fs, t, ttlv, path) ==
    IF IsExpired(fs, t, ttlv, path) THEN [ok |-> FALSE, info |-> NoInfo]
    ELSE IF ~Exists(fs, path) THEN [ok |-> FALSE, info |-> NoInfo]
    ELSE LET parts == SplitN(fs[path].data, Delim, 3)
         IN  IF Len(parts) < 3 THEN [ok |-> FALSE, info |-> NoInfo]
             ELSE LET meta == YAMLUnmarshal(parts[2])
                  IN  IF ~meta.ok THEN [ok |-> FALSE, info |-> NoInfo]
                      ELSE [ok |-> TRUE,
                            info |-> HelmVersionInfo(
                                Field(meta.fields, "version"), Field(meta.fields, "releaseDate"),
                                Field(meta.fields, "releaseURL"), TrimSpace(parts[3]))]

\* NodeFetcher.loadVersionInfoFromMarkdown: [ok, info]
loadNodeVersionInfo(fs, t, ttlv, path) ==
    IF IsExpired(fs, t, ttlv, path) THEN [ok |-> FALSE, info |-> NoInfo]
    ELSE IF ~Exists(fs, path) THEN [ok |-> FALSE, info |-> NoInfo]
    ELSE LET parts == SplitN(fs[path].data, Delim, 3)
         IN  IF Len(parts) < 3 THEN [ok |-> FALSE, info |-> NoInfo]
             ELSE LET meta == YAMLUnmarshal(parts[2])
                  IN  IF ~meta.ok THEN [ok |-> FALSE, info |-> NoInfo]
                      ELSE [ok |-> TRUE,
                            info |-> NodeVersionInfo(
                                Field(meta.fields, "version"), Field(meta.fields, "releaseDate"),
                                Field(meta.fields, "lts"), TrimSpace(parts[3]))]

\* HelmFetcher.FetchHelmVersion: the release is asked for under githubVersion, the
\* record and the cache file carry the version as requested
FetchHelmVersion(version, net, saved) ==
    LET githubVersion == WithV(version)
        cachedPath == HelmCachedPath(version)
        cached == loadHelmVersionInfo(files, now, ttl, cachedPath)
        stale == Exists(files, cachedPath) /\ IsExpired(files, now, ttl, cachedPath)
        cold == ~Exists(files, cachedPath)
        versionInfo == HelmVersionInfo(version, Str("2023-09-28"),
                           <<"https://github.com/helm/helm/releases/tag/">> \o githubVersion,
                           <<"# Helm ">> \o version \o <<NL>>)
    IN  /\ UNCHANGED <<ttl, now, probes, resolution, calls, server>>
        /\ IF cached.ok
           THEN /\ files' = files
                /\ last' = FetchObs("FetchHelmVersion", cachedPath, githubVersion, version, "hit",
                                    stale, cached.info, cached.info.Content, 0, 0, FALSE,
                                    FALSE, cold)
           ELSE IF net # "ok"
           THEN /\ files' = files
                /\ last' = FetchObs("FetchHelmVersion", cachedPath, githubVersion, version,
                                    "error", stale, NoInfo, Empty, 1, 1, TRUE, FALSE, cold)
           ELSE /\ files' = IF saved THEN WriteFile(files, cachedPath, HelmMarkdown(versionInfo), now)
                                     ELSE files
                /\ last' = FetchObs("FetchHelmVersion", cachedPath, githubVersion, version,
                                    "fetched", stale, versionInfo, versionInfo.Content, 1, 1,
                                    FALSE, saved, cold)

\* NodeFetcher.FetchNodeVersion: the version is normalized before anything else
FetchNodeVersion(requested, net, saved) ==
    LET version == WithV(requested)
        cachedPath == NodeCachedPath(version)
        cached == loadNodeVersionInfo(files, now, ttl, cachedPath)
        stale == Exists(files, cachedPath) /\ IsExpired(files, now, ttl, cachedPath)
        cold == ~Exists(files, cachedPath)
        versionInfo == NodeVersionInfo(version, Str("2023-10-24"), Str("Iron"),
                                       <<"# Node.js ">> \o version \o <<NL>>)
    IN  /\ UNCHANGED <<ttl, now, probes, resolution, calls, server>>
        /\ IF cached.ok
           THEN /\ files' = files
                /\ last' = FetchObs("FetchNodeVersion", cachedPath, version, requested, "hit",
                                    stale, cached.info, cached.info.Content, 0, 0, FALSE,
                                    FALSE, cold)
           ELSE IF net # "ok"
           THEN /\ files' = files
                /\ last' = FetchObs("FetchNodeVersion", cachedPath, version, requested,
                                    "error", stale, NoInfo, Empty, 1, 1, TRUE, FALSE, cold)
           ELSE /\ files' = IF saved THEN WriteFile(files, cachedPath, NodeMarkdown(versionInfo), now)
                                     ELSE files
                /\ last' = FetchObs("FetchNodeVersion", cachedPath, version, requested,
                                    "fetched", stale, versionInfo, versionInfo.Content, 1, 1,
                                    FALSE, saved, cold)

InitVersions ==
    /\ ttl \in TTLs
    /\ now = 0
    /\ files = << >>
    /\ last = Obs("none", Empty, "none", FALSE, "none")
    /\ probes = Idle
    /\ resolution = Idle
    /\ calls = Idle
    /\ server = Idle

NextVersions ==
    \/ Tick
    \/ \E version \in ReleaseVersions, net \in RequestOutcomes, saved \in BOOLEAN :
          FetchHelmVersion(version, net, saved)
    \/ \E version \in ReleaseVersions, net \in RequestOutcomes, saved \in BOOLEAN :
          FetchNodeVersion(version, net, saved)

SpecVersions == InitVersions /\ [][NextVersions]_vars

----------------------------------------------------------------------------
(* Claims about cache.Manager, checked under SpecCache *)

\* a file that Manager.Save wrote: it holds a marshalled value
IsEntry(fs, path) == Exists(fs, path) /\ JSONUnmarshal(fs[path].data).ok

\* C2 (as stated): with TTL > 0, a lookup of an entry written at T is a hit exactly
\* when it happens before T + TTL, and a miss from T + TTL on, T + TTL included.
C2_HitBeforeMissFrom ==
    [][\A path \in CachePaths :
         (ttl > 0 /\ IsEntry(files, path) /\ ManagerLoad(path))
            => (last'.outcome = "hit" <=> now < files[path].mtime + ttl)]_vars

\* C2 (amended): with TTL > 0, a lookup of an entry written at T is a hit at every
\* time up to and including T + TTL, and a miss at every time after T + TTL.
C2_HitUpToMissAfter ==
    [][\A path \in CachePaths :
         (ttl > 0 /\ IsEntry(files, path) /\ ManagerLoad(path))
            => /\ (now <= files[path].mtime + ttl => last'.outcome = "hit")
               /\ (now > files[path].mtime + ttl => last'.outcome = "miss")]_vars

\* a lookup at exactly T + TTL has happened and was a hit
C2_Witness ==
    /\ ttl > 0
    /\ last.op = "Load" /\ last.outcome = "hit"
    /\ Exists(files, last.path)
    /\ last.time = files[last.path].mtime + ttl

\* C3: with TTL = 0 every lookup of a written entry is a hit, however old the
\* entry, and the lookup leaves the entry (and every other file) in place.
C3_ZeroTTLNeverStale ==
    [][\A path \in CachePaths :
         (ttl = 0 /\ IsEntry(files, path) /\ ManagerLoad(path))
            => /\ last'.outcome = "hit"
               /\ ~last'.stale
               /\ files' = files]_vars

\* with TTL = 0, an entry older than the positive TTL would allow was looked up and hit
C3_Witness ==
    /\ ttl = 0
    /\ last.op = "Load" /\ last.outcome = "hit"
    /\ Exists(files, last.path)
    /\ last.time > files[last.path].mtime + TTLPos

----------------------------------------------------------------------------
(* Claims about the fetchers' cache use, checked under SpecPy *)

\* the most recent request fetched (name, version) from the source into a location
\* that held no file, and persisted the record
ColdFetched(n, v) ==
    /\ last.op = "FetchPackageInfo" /\ last.subject = n /\ last.version = v
    /\ last.outcome = "fetched" /\ last.cold /\ last.saved

\* this step is a request for (name, version): only a request leaves the clock alone
\* and records itself as the most recent operation
RequestStep(op, n, v) ==
    now' = now /\ last'.op = op /\ last'.subject = n /\ last'.version = v

\* the TTL window of the entry the most recent request wrote is still open
WithinTTL == ttl = 0 \/ now < last.time + ttl

C4_StaleEntryDeleted ==
    (last.op \in {"Load", "FetchPackageInfo"} /\ last.stale)
        => ~(Exists(files, last.path) /\ last.time > files[last.path].mtime + ttl)

\* C6 (as stated): the body a request gets from the cache is the body the request
\* that fetched and stored the entry got.
C6_CachedBodyIdentical ==
    [][\A n \in PyNames, v \in PyVersions :
         (/\ ColdFetched(n, v)
          /\ WithinTTL
          /\ RequestStep("FetchPackageInfo", n, v)
          /\ last'.outcome = "hit")
            => last'.body = last.body]_vars

----------------------------------------------------------------------------
(* Claims about GoFetcher.FetchLibraryInfo, checked under SpecGo *)

\* this step is a FetchLibraryInfo request
LibraryRequestStep == now' = now /\ last'.op = "FetchLibraryInfo"

\* C5 (as stated): a request that is answered from the cache has made no network
\* call, also when it was made with an empty version.
C5_HitMakesNoNetworkCall ==
    [][(LibraryRequestStep /\ last'.outcome = "hit") => last'.netcalls = 0]_vars

C9_FailedAccessReturnsError ==
    [][(LibraryRequestStep /\ last'.netfailed) => last'.outcome = "error"]_vars

\* the resolution of this request ended at the /v4 line
ResolvedAtV4(obs) ==
    /\ obs.op = "FetchLibraryInfo" /\ obs.version = Empty
    /\ obs.value.latest = ProxyVersion(4) \o <<":">> \o TestPath(obs.subject, 4)

\* C12: when the resolution succeeded at a suffixed identifier, the cache key, the
\* URL requested from the source and the ImportPath and Version of the returned and
\* stored record are built from the suffixed identifier and the resolved version, and
\* the file written is the file looked up (no other file changes).
C12_SuffixedIdentifierUsedThroughout ==
    [][(LibraryRequestStep /\ ResolvedAtV4(last'))
          => LET path4 == TestPath(last'.subject, 4)
                 stored == loadLibraryInfoFromMarkdown(files', now', ttl', last'.path)
             IN  /\ last'.path = <<"go", "libraries",
                                   ReplaceAll(path4, "/", "_") \o <<"_">> \o ProxyVersion(4)
                                       \o <<".md">> >>
                 /\ last'.outcome # "hit"
                       => last'.value.url = <<"https://pkg.go.dev", "/">> \o path4
                                                \o <<"@">> \o ProxyVersion(4)
                 /\ last'.outcome # "error"
                       => /\ last'.value.ImportPath = path4
                          /\ last'.value.Version = ProxyVersion(4)
                 /\ (last'.outcome = "fetched" /\ last'.saved)
                       => /\ stored.ok
                          /\ stored.info.ImportPath = path4
                          /\ stored.info.Version = ProxyVersion(4)
                          /\ files'[last'.path].mtime = now
                          /\ DOMAIN files' = DOMAIN files \cup {last'.path}
                          /\ \A p \in DOMAIN files : p # last'.path => files'[p] = files[p]
                 /\ ~(last'.outcome = "fetched" /\ last'.saved) => files' = files]_vars

\* a request without a version was resolved at /v4, fetched and stored its record
\* while the file of the unsuffixed identifier was there too
C12_Witness ==
    /\ ResolvedAtV4(last)
    /\ last.outcome = "fetched" /\ last.saved
    /\ Exists(files, last.path)
    /\ Exists(files, GoCachedPath(last.subject, Empty))

----------------------------------------------------------------------------
(* Claims about version resolution, checked under SpecResolve *)

\* probe i came back without error
Resolved(i) == queryProxyLatest(probes[i]).err = FALSE

Suffixes == 2..MaxMajor

\* the highest-numbered suffix whose probe resolved
HighestResolvedSuffix ==
    CHOOSE i \in Suffixes : Resolved(i) /\ \A j \in Suffixes : j > i => ~Resolved(j)

\* C10 (as stated): resolution returns the version of the highest-numbered suffix
\* whose probe resolved, with that suffixed identifier, whatever the base and the
\* lower suffixes did; when no suffix resolved and the base did, it returns the base
\* version and no other identifier.
C10_HighestSuffixWins ==
    resolution # Idle =>
        /\ (\E i \in Suffixes : Resolved(i)) =>
              /\ ~resolution.result.err
              /\ resolution.result.value =
                    probes[HighestResolvedSuffix].version \o <<":">>
                        \o TestPath(resolution.importPath, HighestResolvedSuffix)
        /\ ((\A i \in Suffixes : ~Resolved(i)) /\ Resolved(1)) =>
              /\ ~resolution.result.err
              /\ resolution.result.value = probes[1].version

\* C11: when neither the base probe nor any suffix probe resolved, resolution fails
\* (its only error is "no versions found") and returns no version.
C11_NothingResolvedFails ==
    (resolution # Idle /\ \A i \in Probes : ~Resolved(i))
        => /\ resolution.result.err
           /\ resolution.result.value = Empty

\* a resolution ran with all ten probes failing
C11_Witness ==
    /\ resolution # Idle
    /\ \A i \in Probes : ~Resolved(i)
    /\ resolution.result.queries = MaxMajor

----------------------------------------------------------------------------
(* Claims about cache keys, checked under SpecKey *)

\* C13 (as stated): within one source two requests have the same cache file exactly
\* when they name the same subject and the same version.
C13_KeyInjective ==
    last.op = "CacheKey"
        => (last.value.pathA = last.value.pathB <=> last.value.a = last.value.b)

----------------------------------------------------------------------------
(* Claims about the stored-record codec, checked under SpecCodec *)

\* no string field of the record contains the delimiter
DelimiterFree(record) == \A f \in DOMAIN record : ~Contains(record[f], Delim)

\* C14 (as stated): a record without the delimiter in its fields, saved and loaded,
\* comes back equal in every header field and in the body.
C14_RoundTrip ==
    (last.op \in {"RoundTripLibrary", "RoundTripVersion"} /\ DelimiterFree(last.value.record))
        => /\ last.value.loaded.ok
           /\ last.value.loaded.info = last.value.record

----------------------------------------------------------------------------
(* Claims about concurrent requests, checked under SpecRace *)

\* both calls missed, retrieved, wrote and have returned
BothFetched == \A g \in Goroutines : calls[g].pc = "done" /\ calls[g].result = "fetched"

\* C15 (as stated): when two concurrent requests for one uncached key have both
\* missed, retrieved and written, the cache file is exactly the record one of them
\* wrote, never a mixture.
C15_LastWriteWins ==
    BothFetched
        => \E g \in Goroutines : files[RacePath].data = PackageMarkdown(calls[g].info)

----------------------------------------------------------------------------
(* Claims about the stdio serving loop, checked under SpecServe *)

\* a line that was read and fails: unparsable JSON, an unknown method, parameters that
\* do not decode, an unknown tool, or a tool that returns an error
FailingLine(e) ==
    \/ e.line.shape = "garbage"
    \/ /\ e.line.shape = "request"
       /\ \/ e.line.method = "unknown_method"
          \/ e.line.method \in {"tools/call", "prompts/get"} /\ e.line.params = "invalid"
          \/ /\ e.line.method = "tools/call"
             /\ e.line.params = "ok"
             /\ \/ e.line.name = "unknown_tool"
                \/ e.line.name = "get_node_info" /\ e.line.version \in {"absent", "empty"}
                \/ e.line.name = "get_node_info" /\ e.net = "fail"

\* the responses written for the i-th line read
ResponsesTo(i) == {k \in 1..Len(server.output) : server.output[k].line = i}

\* C16 (as stated): while standard output can be written, every line that was read
\* and fails is answered with exactly one response, that response is an error, and
\* the loop is not ended by the line.
C16_EveryFailureAnswered ==
    \A i \in 1..Len(server.read) :
        FailingLine(server.read[i]) /\ server.read[i].writable
            => /\ Cardinality(ResponsesTo(i)) = 1
               /\ \A k \in ResponsesTo(i) : server.output[k].resp.Error.set
               /\ i = Len(server.read) => server.err = "none"

\* the response written for a line is an error whose message contains the text
AnsweredWithError(i, text) ==
    /\ ResponsesTo(i) # {}
    /\ \A k \in ResponsesTo(i) :
          /\ "error" \in server.output[k].members
          /\ Contains(server.output[k].resp.Error.message, text)

\* the line decoded, was handled, and its response was written
Answered(i) == server.read[i].line.shape = "request" /\ server.read[i].writable

\* C17: an unknown method is answered with an error containing "Method not found",
\* a tools/call of an unknown tool with one containing "Unknown tool", get_node_info
\* without a version with one containing "version parameter is required"; and every
\* response written has exactly one of the members result and error.
C17_ErrorMessagesAndOneMember ==
    /\ \A i \in 1..Len(server.read) :
          LET line == server.read[i].line
          IN  Answered(i) =>
                /\ line.method = "unknown_method" => AnsweredWithError(i, "Method not found")
                /\ line.method = "tools/call" /\ line.params = "ok" /\ line.name = "unknown_tool"
                      => AnsweredWithError(i, "Unknown tool")
                /\ line.method = "tools/call" /\ line.params = "ok" /\ line.name = "get_node_info"
                        /\ line.version \in {"absent", "empty"}
                      => AnsweredWithError(i, "version parameter is required")
    /\ \A k \in 1..Len(server.output) :
          ("result" \in server.output[k].members) # ("error" \in server.output[k].members)

\* C17 witness: all three failing requests of the claim and a successful one have
\* been answered
C17_Witness ==
    /\ Len(server.output) = MaxLines
    /\ \E i, j \in 1..Len(server.read) :
          /\ Answered(i)
          /\ server.read[i].line.method = "tools/call"
          /\ server.read[i].line.name = "get_node_info"
          /\ server.read[i].line.params = "ok"
          /\ server.read[i].line.version = "absent"
          /\ Answered(j)
          /\ server.read[j].line.method \in {"unknown_method", "initialize"}
          /\ server.output[j].line = j

----------------------------------------------------------------------------
(* Claims about scoring, checked under SpecScore *)

\* the keywords of a topic that contain the query, compared in lower case
MatchingKeywords(query, topic) ==
    {k \in 1..Len(topic.Keywords) : ContainsString(ToLower(topic.Keywords[k]), ToLower(query))}

\* a field contains the query, compared in lower case
Matches(query, text) == ContainsString(ToLower(text), ToLower(query))

\* C18: the score is 10 for a title match, plus 5 for each matching keyword, plus 3
\* for a description match, plus 1 for a body match, compared case-insensitively; a
\* title match with exactly two matching keywords and nothing else scores 20.
C18_ScoreFormula ==
    last.op = "Score" =>
        LET q == last.value.query
            t == last.value.topic
        IN  /\ last.value.score =
                  (IF Matches(q, t.Title) THEN 10 ELSE 0)
                  + 5 * Cardinality(MatchingKeywords(q, t))
                  + (IF Matches(q, t.Description) THEN 3 ELSE 0)
                  + (IF Matches(q, t.Content) THEN 1 ELSE 0)
            /\ /\ Matches(q, t.Title)
               /\ Cardinality(MatchingKeywords(q, t)) = 2
               /\ ~Matches(q, t.Description)
               /\ ~Matches(q, t.Content)
               => last.value.score = 20

\* C18 witness: a query in upper case found in the title and in exactly two keywords,
\* in neither description nor body, has been scored
C18_Witness ==
    /\ last.op = "Score"
    /\ last.value.query = <<"A">>
    /\ Matches(last.value.query, last.value.topic.Title)
    /\ Cardinality(MatchingKeywords(last.value.query, last.value.topic)) = 2
    /\ ~Matches(last.value.query, last.value.topic.Description)
    /\ ~Matches(last.value.query, last.value.topic.Content)
    /\ last.value.score = 20

----------------------------------------------------------------------------
(* Claims about Search, checked under SpecSearch *)

\* the topics of the searched documentations that score for the query
MatchingSlots(v) ==
    {s \in DOMAIN v.provider :
        /\ v.documentation = "" \/ s[1] = v.documentation
        /\ calculateScore(ToLower(v.query), v.provider[s]) > 0}

\* the result Search builds for a topic
ResultOf(v, s) == SearchResult(v.provider[s], s[1], calculateScore(ToLower(v.query), v.provider[s]))

\* the results are the matching topics' results, each as often as topics have it
SameResults(v) ==
    /\ Len(v.results) = Cardinality(MatchingSlots(v))
    /\ \A s \in MatchingSlots(v) :
          Cardinality({k \in 1..Len(v.results) : v.results[k] = ResultOf(v, s)})
             = Cardinality({t \in MatchingSlots(v) : ResultOf(v, t) = ResultOf(v, s)})

\* C19: Search returns exactly the topics of the searched documentations that score
\* more than 0, each once: none that scores 0, and none that scores is left out.
C19_ExactlyTheMatches ==
    last.op = "Search" =>
        /\ SameResults(last.value)
        /\ \A k \in 1..Len(last.value.results) : last.value.results[k].Score > 0

\* C19 witness: a search of one documentation among two, holding a topic that scores
\* and one that does not, has returned a result
C19_Witness ==
    /\ last.op = "Search"
    /\ last.value.documentation = "go"
    /\ \E s, t, u \in DOMAIN last.value.provider :
          /\ s[1] = "go" /\ t[1] = "go" /\ u[1] = "ts"
          /\ s \in MatchingSlots(last.value)
          /\ calculateScore(ToLower(last.value.query), last.value.provider[t]) = 0
          /\ calculateScore(ToLower(last.value.query), last.value.provider[u]) > 0
    /\ Len(last.value.results) = 1

\* C20: the results are in non-increasing order of score and are a rearrangement of
\* the matching topics' results.
C20_SortedPermutation ==
    last.op = "Search" =>
        /\ \A k \in 1..(Len(last.value.results) - 1) :
              last.value.results[k].Score >= last.value.results[k + 1].Score
        /\ SameResults(last.value)

\* C20 witness: four matching topics with three different scores, two of them tied,
\* have been returned
C20_Witness ==
    /\ last.op = "Search"
    /\ Len(last.value.results) = 4
    /\ Cardinality({last.value.results[k].Score : k \in 1..4}) = 3

\* the documentations the provider holds topics of
LoadedDocs(v) == {s[1] : s \in DOMAIN v.provider}

\* C21: with a non-empty documentation filter Search returns only results of that
\* documentation, whatever topics of other documentations score; with a filter that
\* names no loaded documentation it returns nothing.
C21_FilterKeepsToCollection ==
    last.op = "Search" /\ last.value.documentation # "" =>
        /\ \A k \in 1..Len(last.value.results) :
              last.value.results[k].Documentation = last.value.documentation
        /\ last.value.documentation \notin LoadedDocs(last.value) => last.value.results = << >>

\* C21 witness: a search filtered to "go" has returned a result although a topic of
\* "ts" scores higher than every topic of "go"
C21_Witness ==
    /\ last.op = "Search"
    /\ last.value.documentation = "go"
    /\ last.value.results # << >>
    /\ \E u \in DOMAIN last.value.provider :
          /\ u[1] = "ts"
          /\ \A s \in DOMAIN last.value.provider :
                s[1] = "go" => calculateScore(ToLower(last.value.query), last.value.provider[u])
                                  > calculateScore(ToLower(last.value.query), last.value.provider[s])

----------------------------------------------------------------------------
(* Claims about GetDoc, checked under SpecDoc *)

\* the topics stored under the id in the documentations the call looks in
StoredUnder(v) ==
    {s \in DOMAIN v.provider : s[2] = v.id /\ (v.doc = "" \/ s[1] = v.doc)}

\* C22: GetDoc with a non-empty id returns the content of a topic stored under that
\* id, in the named documentation when one is named, as it is stored; it returns a
\* not-found error when there is none; with id and topic both empty it returns an error.
C22_GetDocById ==
    last.op = "GetDoc" =>
        LET v == last.value
        IN  /\ v.id # "" /\ StoredUnder(v) # {}
                => /\ ~v.result.err
                   /\ \E s \in StoredUnder(v) : v.result.content = v.provider[s].Content
            /\ v.id # "" /\ StoredUnder(v) = {}
                => v.result.err /\ v.result.message = "documentation not found for id"
            /\ v.id = "" /\ v.topic = Empty => v.result.err

\* C22 witness: an id stored in both documentations with different contents has been
\* asked for in one of them, and the content was returned
C22_Witness ==
    /\ last.op = "GetDoc"
    /\ last.value.id = "k1"
    /\ last.value.doc = "ts"
    /\ <<"go", "k1">> \in DOMAIN last.value.provider
    /\ <<"ts", "k1">> \in DOMAIN last.value.provider
    /\ last.value.provider[<<"go", "k1">>].Content # last.value.provider[<<"ts", "k1">>].Content
    /\ ~last.value.result.err
    /\ last.value.result.content = <<"A", "b">>

----------------------------------------------------------------------------
(* Claims about loading the corpus, checked under SpecLoad *)

\* the directories of the corpus
CorpusDirs(v) == {i \in 1..Len(v.corpus) : v.corpus[i].kind = "dir"}

\* C23 (as stated): the load does not fail, every documentation directory is loaded,
\* and one whose metadata file is missing or malformed has the default metadata
\* generated from its name.
C23_MetadataFallsBack ==
    last.op = "NewProvider" =>
        LET v == last.value
        IN  /\ ~v.result.err
            /\ \A i \in CorpusDirs(v) :
                  /\ CorpusNames[i] \in DOMAIN v.result.documentations
                  /\ v.corpus[i].metadata \in {"missing", "malformed"}
                        => v.result.documentations[CorpusNames[i]].metadata
                              = DefaultMetadata(CorpusNames[i])

----------------------------------------------------------------------------
(* Claims about ParseDuration, checked under SpecDuration *)

\* the text is a number followed by the unit
NumberWithUnit(text, unit) ==
    Len(text) >= 2 /\ LeadingDigits(text) = Len(text) - 1 /\ text[Len(text)] = unit

\* the number of a text that is a number followed by a unit
NumberOf(text) == Atoi(SubSeq(text, 1, Len(text) - 1))

\* C25 (as stated): "0" and the empty text give 0, "<n>d" gives n times 24 hours and
\* "<n>w" n times 7 times 24 hours, "24h" gives 24 hours and "30m" 30 minutes
\* (durations in minutes).
C25_DurationUnits ==
    last.op = "ParseDuration" =>
        LET text == last.value.text
            result == last.value.result
        IN  /\ text \in {Empty, <<"0">>} => result = DurationOK(0)
            /\ NumberWithUnit(text, "d") => result = DurationOK(NumberOf(text) * 24 * 60)
            /\ NumberWithUnit(text, "w") => result = DurationOK(NumberOf(text) * 7 * 24 * 60)
            /\ text = <<"2", "4", "h">> => result = DurationOK(24 * 60)
            /\ text = <<"3", "0", "m">> => result = DurationOK(30)

----------------------------------------------------------------------------
(* Claims about startup, checked under SpecStartup *)

\* config.yaml holds a cache_ttl that ParseDuration rejects
InvalidTTL == server.file.kind = "cache_ttl" /\ ParseDuration(server.file.text).err

\* C24 (as stated): with an invalid cache_ttl in config.yaml no constructor panics,
\* and every fetcher constructed so far has the default TTL of the fallback (0).
C24_InvalidTTLFallsBack ==
    InvalidTTL =>
        /\ ~server.panicked
        /\ \A i \in 1..Len(server.fetchers) : server.fetchers[i] = 0

----------------------------------------------------------------------------
(* Claims about --clear-cache, checked under SpecClear *)

\* this step is a run of the command
ClearStep == now' = now /\ last'.op = "clearCache"

\* C26: a run of --clear-cache succeeds and leaves no file in the cache directory,
\* also when there was none; a request that follows it, for any key, is not answered
\* from the cache but goes to the source.
C26_ClearThenRefetch ==
    [][/\ ClearStep => last'.outcome = "ok" /\ DOMAIN files' = {}
       /\ \A n \in PyNames, v \in PyVersions :
             (last.op = "clearCache" /\ RequestStep("FetchPackageInfo", n, v))
                => last'.outcome # "hit" /\ last'.netcalls = 1 /\ last'.cold]_vars

\* C26 witness: the command has removed a cache directory that held both entries
C26_Witness ==
    /\ last.op = "clearCache"
    /\ last.value = Cardinality(PyPaths)
    /\ files = << >>

----------------------------------------------------------------------------
(* Claims about records built from several requests, checked under SpecPartial *)

\* C27 (as stated): when a request made while FetchActionInfo or FetchDockerImage
\* builds its record fails, no cache file is written for the call.
C27_NoRecordFromPartialResult ==
    [][(/\ now' = now
        /\ last'.op \in {"FetchActionInfo", "FetchDockerImage"}
        /\ last'.netfailed)
           => files' = files]_vars

----------------------------------------------------------------------------
(* Claims about a lookup during a save, checked under SpecTorn *)

\* C28 (as stated): a lookup that runs while a save to the same file is under way
\* never returns as a hit a record other than the completely written one; a partly
\* written file is a miss.
C28_NoTornHit ==
    (last.op \in {"Load", "loadPackageInfoFromMarkdown"} /\ last.outcome = "hit")
        => last.value.same

----------------------------------------------------------------------------
(* Further claims about version resolution, checked under SpecResolve *)

\* the value getLatestVersion returns for the answer of probe i
ResultOfProbe(importPath, i) ==
    IF i = 1 THEN probes[1].version
    ELSE probes[i].version \o <<":">> \o TestPath(importPath, i)

\* C29 (as stated): a failed probe never stops the probing, so every resolution
\* performs all ten probes; and when the base probe did not resolve while the /v3
\* probe did (and no higher suffix did), the resolution returns the /v3 version with
\* the /v3 identifier.
C29_ProbesIndependent ==
    resolution # Idle =>
        /\ resolution.result.queries = MaxMajor
        /\ (~Resolved(1) /\ Resolved(3) /\ \A j \in 4..MaxMajor : ~Resolved(j)) =>
              /\ ~resolution.result.err
              /\ resolution.result.value = ResultOfProbe(resolution.importPath, 3)

\* the highest-numbered probe that came back without error
HighestResolved ==
    CHOOSE i \in Probes : Resolved(i) /\ \A j \in Probes : j > i => ~Resolved(j)

\* C30 (as stated): when at least one of the ten probes came back without error,
\* getLatestVersion returns without error a non-empty version, that of the
\* highest-numbered successful probe.
C30_FailsOnlyWhenAllFailed ==
    (resolution # Idle /\ \E i \in Probes : Resolved(i)) =>
        /\ ~resolution.result.err
        /\ resolution.result.value # Empty
        /\ probes[HighestResolved].version # Empty
        /\ resolution.result.value = ResultOfProbe(resolution.importPath, HighestResolved)

----------------------------------------------------------------------------
(* Claims about the version fetchers, checked under SpecVersions *)

\* the two version strings differ only by a leading 'v'
DifferByV(a, b) == a # b /\ WithV(a) = WithV(b)

\* C31 (as stated): in FetchHelmVersion and FetchNodeVersion, when a request has
\* fetched and stored its record, a request for the same release spelled with or
\* without the leading 'v', made within the TTL, is a hit.
C31_SpellingsShareEntry ==
    [][(/\ now' = now
        /\ last'.op \in {"FetchHelmVersion", "FetchNodeVersion"}
        /\ last.op = last'.op /\ last.outcome = "fetched" /\ last.saved
        /\ WithinTTL /\ DifferByV(last.version, last'.version))
           => last'.outcome = "hit"]_vars

----------------------------------------------------------------------------
(* Further claims about GetDoc, checked under SpecDoc *)

\* the topics in the documentations the call looks in whose title or id equals the
\* topic argument, letter case aside
Titled(v) ==
    {s \in DOMAIN v.provider :
        /\ v.doc = "" \/ s[1] = v.doc
        /\ EqualFold(v.provider[s].Title, v.topic) \/ EqualFold(v.provider[s].ID, v.topic)}

\* C32 (as stated): whenever the lookup by id yields no entry (the id is empty, or it
\* is given and nothing is stored under it), GetDoc matches the topic argument against
\* the titles and ids in scope and returns the content of a matching entry.
C32_TitleFallback ==
    (last.op = "GetDoc" /\ (last.value.id = "" \/ StoredUnder(last.value) = {})
       /\ last.value.topic # Empty /\ Titled(last.value) # {})
        => /\ ~last.value.result.err
           /\ \E s \in Titled(last.value) :
                 last.value.result.content = last.value.provider[s].Content

----------------------------------------------------------------------------
(* Claims about the loaded topics, checked under SpecTopics *)

\* the provider that holds the loaded documentation
LoadedProvider(topics) == [s \in {TopicsDoc} \X DOMAIN topics |-> topics[s[2]]]

\* GetDoc by the entry's own id returns the entry's content, whatever the visiting order
ReachableById(topics, k) ==
    \A order \in VisitOrders(LoadedProvider(topics)) :
        LET got == GetDoc(LoadedProvider(topics), topics[k].ID, TopicsDoc, Empty, order)
        IN  ~got.err /\ got.content = topics[k].Content

\* C33 (as stated): after loading, every entry of a collection is stored under a key
\* equal to its own id, no two entries have the same id, and GetDoc by id reaches
\* every entry.
C33_KeyIsId ==
    last.op = "loadDocumentation" =>
        \A k \in DOMAIN last.value.Topics :
            /\ last.value.Topics[k].ID = k
            /\ \A j \in DOMAIN last.value.Topics : last.value.Topics[j].ID = last.value.Topics[k].ID => j = k
            /\ ReachableById(last.value.Topics, k)

----------------------------------------------------------------------------
(* Claims about the corpus after startup, checked under SpecCorpus *)

\* the list holds, for every documentation, a copy with every entry's summary fields
\* and an empty body
SummariesOf(p, listed) ==
    /\ {listed[i].Name : i \in 1..Len(listed)} = DocumentationsOf(p)
    /\ \A i \in 1..Len(listed) :
          /\ DOMAIN listed[i].Topics = {s[2] : s \in {t \in DOMAIN p : t[1] = listed[i].Name}}
          /\ \A k \in DOMAIN listed[i].Topics :
                listed[i].Topics[k] = [p[<<listed[i].Name, k>>] EXCEPT !.Content = Empty]

\* C34: whatever Search, GetDoc and ListDocumentations calls have run or are running,
\* the corpus is as it was loaded, and a list that ListDocumentations returned holds
\* every entry's summary fields with an empty body.
C34_CorpusReadOnly ==
    /\ server.documentations = server.loaded
    /\ last.op = "ListDocumentations" => SummariesOf(server.loaded, last.value)

\* C34 witness: a list of a corpus whose entries have bodies was returned while the
\* other goroutine is inside ListDocumentations, one documentation copied
C34_Witness ==
    /\ last.op = "ListDocumentations"
    /\ Len(last.value) = 2
    /\ \E s \in DOMAIN server.loaded : server.loaded[s].Content # Empty
    /\ \E g \in Goroutines : calls[g].pc = "list" /\ Len(calls[g].listed) = 1

----------------------------------------------------------------------------
(* Further claims about cache.Manager, checked under SpecCache *)

\* C35: Manager.Load of a location at which no file exists is a miss without error,
\* for TTL = 0 as for a positive TTL, and leaves the cache directory as it is.
C35_AbsentIsMiss ==
    [][\A path \in CachePaths :
         (~Exists(files, path) /\ ManagerLoad(path))
            => /\ last'.outcome = "miss"
               /\ ~last'.stale
               /\ files' = files]_vars

\* C35 witness: with TTL = 0 a location without a file was looked up and missed, while
\* the other location held a file
C35_Witness ==
    /\ ttl = 0
    /\ last.op = "Load" /\ last.outcome = "miss"
    /\ ~Exists(files, last.path)
    /\ \E path \in CachePaths : Exists(files, path)

----------------------------------------------------------------------------
(* Claims about a failed cache write, checked under SpecWriteFail *)

\* C36 (as stated): a request whose retrieval succeeded and whose cache write failed
\* returned the fetched record, and the next request for the same key is a miss that
\* retrieves again.
C36_FailedWriteLeavesNoEntry ==
    [][(/\ last.op = "FetchPackageInfo" /\ last.outcome = "fetched" /\ ~last.saved
        /\ now' = now /\ last'.op = "FetchPackageInfo" /\ last'.path = last.path)
           => /\ last.info # NoInfo
              /\ last'.outcome # "hit"
              /\ last'.retrievals = 1]_vars

----------------------------------------------------------------------------
(* Further claims about startup, checked under SpecStartup *)

\* C37 (as stated): once config.Load has been called, every further call returns the
\* configuration and the error outcome of the first call, never a nil configuration
\* with a nil error, and all fetchers constructed so far have the same TTL.
C37_LoadIdempotent ==
    server.once =>
        /\ Load(server).cfg = loadConfig(server.file).cfg
        /\ Load(server).err = loadConfig(server.file).err
        /\ ~(Load(server).cfg.nil /\ ~Load(server).err)
        /\ \A i, j \in 1..Len(server.fetchers) : server.fetchers[i] = server.fetchers[j]

----------------------------------------------------------------------------
(* Claims about the order of the responses, checked under SpecOrder *)

\* the lines read so far that parsed as requests
RequestsRead == {i \in 1..Len(server.read) : server.read[i].line.shape = "request"}

\* C38 (as stated): the responses are written in the order in which their requests
\* were read, each carries the id of the request it answers, and when a line is read
\* every request before it has been handled and answered.
C38_ResponsesInOrder ==
    /\ \A i, j \in 1..Len(server.output) :
          i < j => server.output[i].answers < server.output[j].answers
    /\ \A i \in 1..Len(server.output) :
          /\ server.output[i].answers \in RequestsRead
          /\ server.output[i].id = server.read[server.output[i].answers].id
    /\ {server.output[i].answers : i \in 1..Len(server.output)}
          = IF server.pc = "handle" THEN RequestsRead \ {Len(server.read)} ELSE RequestsRead

----------------------------------------------------------------------------
(* Claims about the clients map, checked under SpecSSE *)

\* the handleSSE calls that have registered and not returned
ActiveCalls == {c \in Connections : calls[c].pc = "serving"}

\* C39 (as stated): the clients map holds exactly one entry for each active handleSSE
\* call, under that call's id; two connected clients never have the same id; and
\* SendToClient reports "client not found" only for a client that is not connected.
C39_OneEntryPerClient ==
    /\ Cardinality(DOMAIN server.clients) = Cardinality(ActiveCalls)
    /\ \A c \in ActiveCalls : calls[c].id \in DOMAIN server.clients /\ server.clients[calls[c].id] = c
    /\ \A c, d \in ActiveCalls : calls[c].id = calls[d].id => c = d
    /\ (last.op = "SendToClient" /\ last.outcome = "client not found") => ~last.value.connected

----------------------------------------------------------------------------
(* Claims about SendToClient and BroadcastToAll, checked under SpecSendFair *)

\* the clients BroadcastToAll has still to send to or is sending to
BroadcastLeft == Cardinality(calls[Broadcaster].todo) + (IF calls[Broadcaster].pc = "select" THEN 1 ELSE 0)

\* C40: every call of SendToClient and of BroadcastToAll returns, also when a buffer
\* is full or the handler has exited: SendToClient waits in its one select until the
\* send goes or the timer fires, BroadcastToAll waits for a timer at most once for
\* each registered client, and no handler, sender or broadcaster waits for the
\* clients lock for ever (the handlers that wait for the lock all get it).
C40_CallsTerminate ==
    /\ (calls[Sender].pc # "idle") ~> (calls[Sender].pc = "idle")
    /\ (calls[Broadcaster].pc # "idle") ~> (calls[Broadcaster].pc = "idle")
    /\ (PendingWriters # {}) ~> (PendingWriters = {})
    /\ [](calls[Broadcaster].pc \in {"range", "select"}
             => calls[Broadcaster].waited + BroadcastLeft <= Cardinality(server.clients))

\* C40 witness: SendToClient has returned its timeout error for a client whose buffer
\* is full and whose handler has exited, while BroadcastToAll, holding the read lock
\* with a handler waiting for the lock, has waited for a full buffer
C40_Witness ==
    /\ calls[Sender].result = "timeout"
    /\ calls[calls[Sender].target].pc = "exited"
    /\ server.messages[calls[Sender].target] = BufferSize
    /\ calls[Broadcaster].pc = "range" /\ calls[Broadcaster].waited >= 1
    /\ PendingWriters # {}

====
